---- MODULE Spec2Model ----
(***************************************************************************)
(* A model of the foil-lab track analysis core: the iterative wind         *)
(* direction solver (backend/core/wind/algorithms.py), the wind-relative   *)
(* classification (backend/core/calculations.py) and the segment detector  *)
(* (backend/core/segments/detector.py).                                    *)
(*                                                                         *)
(* Angles are fixed-point integers: one degree is Deg units, so that the   *)
(* halvings of the solver (medians of even-sized samples, imbalance / 2,   *)
(* the oscillation average) stay exact for inputs given in quarter         *)
(* degrees.  Distances are whole metres.  An optional value (None in the   *)
(* source) is a sequence of length 0 or 1.                                 *)
(***************************************************************************)
EXTENDS Integers, Sequences, FiniteSets, TLC

VARIABLES
    \* arguments of estimate_wind_direction_iterative
    segments, initial_wind, suspicious_angle_threshold, min_segment_distance,
    max_iterations, best_attempts_fraction,
    \* its locals
    iteration, current_wind, previous_wind, iteration_history, outcome,
    \* what it returns
    result,
    \* the track handed to the segment detector and its angle tolerance
    df, legs, angle_tolerance,
    \* what the detector derives from it
    df_with_metrics, stretches, built_segments,
    \* the thresholds of filter_valid_segments, what it keeps and what
    \* find_consistent_angle_stretches returns
    min_distance_meters, min_duration_seconds, valid_segments, cleaned_df,
    \* the rows analyze_wind_angles returns, the tacks determine_tack gives for
    \* the same rows, and the rows get_best_pointing_segments keeps
    analyzed_df, tack_labels, best_df,
    \* the score calculate_wind_score gives the analysed rows, and the hint,
    \* the scored candidates and the answer of user_guided_wind_estimation
    wind_score, user_wind_direction, candidate_scores, guided_estimate,
    \* the arguments of the filters of backend/core/filtering.py, what
    \* filter_segments_by_time and filter_segments_by_spatial_bounds return
    \* and the verdict of validate_filter_params
    filter_args, time_filtered, space_filtered, params_verdict,
    \* the arguments analyze_track_data hands to the filters, the validation
    \* error find_consistent_angle_stretches caught, and what
    \* analyze_track_data returns
    track_args, validation_error, track_result,
    \* the position of the function being run
    pc

args == <<segments, initial_wind, suspicious_angle_threshold, min_segment_distance,
          max_iterations, best_attempts_fraction>>

locals == <<iteration, current_wind, previous_wind, iteration_history, outcome>>

solver_vars == <<args, locals, result>>

detector_args == <<df, legs, angle_tolerance>>

filter_vars == <<min_distance_meters, min_duration_seconds, valid_segments, cleaned_df>>

detector_vars == <<detector_args, df_with_metrics, stretches, built_segments, filter_vars>>

score_vars == <<wind_score, user_wind_direction, candidate_scores, guided_estimate>>

filtering_vars == <<filter_args, time_filtered, space_filtered, params_verdict>>

track_vars == <<track_args, validation_error, track_result>>

classify_vars == <<analyzed_df, tack_labels, best_df, score_vars, filtering_vars, track_vars>>

vars == <<solver_vars, detector_vars, classify_vars, pc>>

(***************************************************************************)
(* Units and program constants (backend/core/constants.py).                *)
(***************************************************************************)
Deg == 2^14

FULL_CIRCLE_DEGREES == 360
ANGLE_WRAP_BOUNDARY_DEGREES == 180
UPWIND_DOWNWIND_BOUNDARY_DEGREES == 90
DEFAULT_SUSPICIOUS_ANGLE_THRESHOLD == 20
DEFAULT_MIN_SEGMENT_DISTANCE_METERS == 50
MIN_RELIABLE_SEGMENT_LENGTH_METERS == 30
HIGH_CONFIDENCE_MIN_DISTANCE_METERS == 500
MEDIUM_CONFIDENCE_TACK_DIFF_DEGREES == 20
MAX_TACK_DIFF_FOR_ADJUSTMENT_DEGREES == 30
MIN_SEGMENTS_FOR_ESTIMATION == 3
WIND_CONVERGENCE_THRESHOLD_DEGREES == 1
DEFAULT_MAX_ITERATIONS == 5
DEFAULT_BEST_ATTEMPTS_PERCENT == 40
BEST_POINTING_MIN_COUNT == 3
\* METERS_PER_SECOND_TO_KNOTS = 1.94384, in units of 0.00001
METERS_PER_SECOND_TO_KNOTS == 194384
WIND_SEARCH_RANGE_DEGREES == 30
WIND_SEARCH_RANGE_WIDTH_DEGREES == 60
WIND_SEARCH_STEP_DEGREES == 10
\* scores are counted in units of 0.0001, their three parts in units of 0.001
ScoreUnits == 10000
PartUnits == 1000
\* 0.4
MIN_SCORE_FOR_USER_GUIDED == 4000
\* the default weights 0.5, 0.3 and 0.2, in tenths
UPWIND_WEIGHT == 5
SPREAD_WEIGHT == 3
BALANCE_WEIGHT == 2
\* a standard deviation is counted in units of 1/40 degree
SpreadUnits == 40
\* speeds are held in units of 0.00001 knots
KnotUnits == 10^5
\* the speed above which validate_and_clean_segments drops a segment
MAX_CLEAN_SPEED_KNOTS == 200

FullCircle == FULL_CIRCLE_DEGREES * Deg

(***************************************************************************)
(* Arithmetic helpers.                                                     *)
(***************************************************************************)
Abs(x) == IF x < 0 THEN -x ELSE x
Min(a, b) == IF a <= b THEN a ELSE b
Max(a, b) == IF a >= b THEN a ELSE b
\* x / 2.0 on fixed-point values (exact while x is even, see ExactHalves)
Half(x) == x \div 2

None == <<>>
Some(x) == <<x>>

\* a missing timestamp in a column that holds timestamps (pandas NaT): a value
\* that is not None and whose differences are not numbers
NaT == <<0, 0>>
IsNaT(t) == Len(t) = 2

\* the float nan: below every number the program compares it with, so that
\* nan > 0 and nan >= threshold are false as in the source
NaN == 0 - 2^30
IsNaN(x) == x = NaN

\* (later - earlier).total_seconds() of two timestamps that are not None
total_seconds(later, earlier) ==
    IF IsNaT(later) \/ IsNaT(earlier) THEN NaN ELSE later[1] - earlier[1]

\* the sum of the distance column
SumDistance(s) ==
    LET sum[i \in 0..Len(s)] == IF i = 0 THEN 0 ELSE sum[i - 1] + s[i].distance
    IN  sum[Len(s)]

(***************************************************************************)
(* Faulty variants of definitions given further down.  Each property below *)
(* is also checked with one of them in place of the definition it varies,  *)
(* and has to reject it.                                                   *)
(***************************************************************************)
\* of converged: a threshold of half a degree
converged_within_half(new_wind, wind) ==
    Abs(new_wind - wind) < Deg \div 2

\* of oscillation_average: the newest hypothesis instead of the average
keep_new_wind(wind, new_wind) == new_wind

\* of loop_continues: one iteration more than the budget
loop_continues_inclusive(iter, max_iter) == iter + 1 <= max_iter

\* of abort_target: an aborted first iteration goes on to the final analysis
abort_always_breaks(iter) == "final"

\* of new_wind_of: the adjustment applied with the wrong sign
new_wind_wrong_sign(wind, port_median, starboard_median) ==
    (wind + Half(starboard_median - port_median)) % FullCircle

\* of confidence_of: high confidence without three segments on each tack
confidence_without_counts(port_angle, starboard_angle, final_port, final_starboard, final_upwind) ==
    IF port_angle # None /\ starboard_angle # None
    THEN IF /\ Abs(port_angle[1] - starboard_angle[1])
                   < MEDIUM_CONFIDENCE_TACK_DIFF_DEGREES * Deg
            /\ SumDistance(final_upwind) > HIGH_CONFIDENCE_MIN_DISTANCE_METERS
         THEN "high"
         ELSE IF Abs(port_angle[1] - starboard_angle[1])
                    < MAX_TACK_DIFF_FOR_ADJUSTMENT_DEGREES * Deg
              THEN "medium"
              ELSE "low"
    ELSE "low"

\* of segment_bearing: the bearing of the last row of the stretch
bearing_of_last_row(stretch_data) == stretch_data[Len(stretch_data)].bearing

\* of closed_range: the stretch closed at the point that broke the tolerance
closed_at_break(current_start, i) == <<current_start, i>>

\* of filter_valid_segments: either threshold is enough
filter_either_threshold(segs, min_distance, min_duration) ==
    LET Valid(segment) ==
            \/ segment.distance >= min_distance
            \/ segment.duration >= min_duration
    IN  SelectSeq(segs, Valid)

\* of abort_target: every aborted iteration returns at once
abort_always_returns(iter) == "done"

\* of direction_of: exactly 90 degrees counted as upwind
direction_upwind_at_boundary(angle) ==
    IF angle <= UPWIND_DOWNWIND_BOUNDARY_DEGREES * Deg THEN "Upwind" ELSE "Downwind"

\* of angle_to_wind: the inputs not reduced to one turn
angle_without_reduction(bearing, wind_direction) ==
    LET diff == Abs(bearing - wind_direction)
    IN  Min(diff, FullCircle - diff)

\* of determine_tack: the knife edge at 180 degrees given to starboard
tack_strict_boundary(bearing, wind_direction) ==
    IF (bearing - wind_direction) % FullCircle < ANGLE_WRAP_BOUNDARY_DEGREES * Deg
    THEN "Port" ELSE "Starboard"

\* of best_count_of: the fraction alone, without the minimum count
best_count_without_minimum(n, min_count, max_fraction) ==
    (n * max_fraction) \div 100

(***************************************************************************)
(* Wind-relative classification (backend/core/calculations.py).            *)
(***************************************************************************)
angle_to_wind(bearing, wind_direction) ==
    LET b == bearing % FullCircle
        w == wind_direction % FullCircle
        diff == Abs(b - w)
    IN  Min(diff, FullCircle - diff)

\* the tack lambda of analyze_wind_angles
tack_of(bearing, wind_direction) ==
    IF (bearing - wind_direction) % FullCircle <= ANGLE_WRAP_BOUNDARY_DEGREES * Deg
    THEN "Port" ELSE "Starboard"

\* the direction lambda of analyze_wind_angles
direction_of(angle) ==
    IF angle < UPWIND_DOWNWIND_BOUNDARY_DEGREES * Deg THEN "Upwind" ELSE "Downwind"

analyze_wind_angles(segs, wind_direction) ==
    [i \in 1..Len(segs) |->
        [bearing |-> segs[i].bearing,
         distance |-> segs[i].distance,
         angle_to_wind |-> angle_to_wind(segs[i].bearing, wind_direction),
         direction |-> direction_of(angle_to_wind(segs[i].bearing, wind_direction)),
         tack |-> tack_of(segs[i].bearing, wind_direction)]]

determine_tack(bearing, wind_direction) ==
    IF (bearing - wind_direction) % FullCircle <= ANGLE_WRAP_BOUNDARY_DEGREES * Deg
    THEN "Port" ELSE "Starboard"

(***************************************************************************)
(* The outlier predicate (utils/segment_analysis.py, not part of the       *)
(* sources at hand): a pure predicate over one segment's fields, flagging  *)
(* an implausibly small angle to the wind or a segment too short to trust. *)
(***************************************************************************)
is_suspicious(seg, min_angle_to_wind, min_segment_length) ==
    \/ seg.angle_to_wind < min_angle_to_wind * Deg
    \/ seg.distance < min_segment_length

detect_suspicious_segments(segs, min_angle_to_wind, min_segment_length) ==
    [i \in 1..Len(segs) |->
        [bearing |-> segs[i].bearing,
         distance |-> segs[i].distance,
         angle_to_wind |-> segs[i].angle_to_wind,
         direction |-> segs[i].direction,
         tack |-> segs[i].tack,
         suspicious |-> is_suspicious(segs[i], min_angle_to_wind, min_segment_length)]]

(***************************************************************************)
(* Best-pointing selection and medians (backend/core/wind/algorithms.py).  *)
(***************************************************************************)
\* the place of row j among the rows sorted by angle_to_wind, ties in their
\* original order
RankByAngle(s, j) ==
    Cardinality({k \in 1..Len(s) :
                    \/ s[k].angle_to_wind < s[j].angle_to_wind
                    \/ s[k].angle_to_wind = s[j].angle_to_wind /\ k < j}) + 1

\* the rows sorted by angle_to_wind (a stable sort); the rows are bound once
SortByAngle(rows) ==
    CHOOSE sorted \in {[i \in 1..Len(s) |-> s[CHOOSE j \in 1..Len(s) : RankByAngle(s, j) = i]] :
                          s \in {rows}} : TRUE

\* DataFrame.nsmallest(k, 'angle_to_wind')
nsmallest(s, k) == SubSeq(SortByAngle(s), 1, Min(k, Len(s)))

\* int(n * max_fraction), the fraction given in percent
best_count_of(n, min_count, max_fraction) ==
    Max(min_count, (n * max_fraction) \div 100)

get_best_pointing_segments(tack_df, min_count, max_fraction) ==
    LET n == Len(tack_df)
    IN  IF n <= min_count THEN tack_df
        ELSE nsmallest(tack_df, best_count_of(n, min_count, max_fraction))

\* the middle of the sorted rows, the mean of the two middle ones for an even count
middle_angle(sorted) ==
    LET n == Len(sorted)
    IN  IF n % 2 = 1 THEN sorted[(n + 1) \div 2].angle_to_wind
        ELSE Half(sorted[n \div 2].angle_to_wind + sorted[n \div 2 + 1].angle_to_wind)

\* np.median of the angle_to_wind column of a non-empty frame
median_angle(rows) ==
    CHOOSE m \in {middle_angle(sorted) : sorted \in {SortByAngle(rows)}} : TRUE

IsUpwind(r) == r.angle_to_wind < UPWIND_DOWNWIND_BOUNDARY_DEGREES * Deg
IsPort(r) == r.tack = "Port"
IsStarboard(r) == r.tack = "Starboard"
NotSuspicious(r) == ~r.suspicious

\* steps 1-4 of an iteration: reclassify, keep upwind, drop suspicious, drop short
upwind_of(segs, wind, angle_threshold, min_distance) ==
    LET analyzed == analyze_wind_angles(segs, wind)
        upwind == SelectSeq(analyzed, IsUpwind)
        upwind_filtered ==
            IF Len(upwind) > 0
            THEN SelectSeq(detect_suspicious_segments(upwind, angle_threshold,
                            MIN_RELIABLE_SEGMENT_LENGTH_METERS), NotSuspicious)
            ELSE upwind
        LongEnough(r) == r.distance >= min_distance
    IN  IF min_distance > 0 /\ Len(upwind_filtered) > 0
        THEN SelectSeq(upwind_filtered, LongEnough)
        ELSE upwind_filtered

\* the same filtering, repeated after the loop for the final statistics
final_upwind_of(segs, wind, angle_threshold, min_distance) ==
    LET final_analyzed == analyze_wind_angles(segs, wind)
        upwind == SelectSeq(final_analyzed, IsUpwind)
        kept ==
            IF Len(upwind) > 0
            THEN SelectSeq(detect_suspicious_segments(upwind, angle_threshold,
                            MIN_RELIABLE_SEGMENT_LENGTH_METERS), NotSuspicious)
            ELSE upwind
        LongEnough(r) == r.distance >= min_distance
    IN  IF min_distance > 0 /\ Len(kept) > 0
        THEN SelectSeq(kept, LongEnough)
        ELSE kept

\* step 7: the hypothesis that balances the two medians
new_wind_of(wind, port_median, starboard_median) ==
    LET angle_imbalance == starboard_median - port_median
        wind_adjustment == Half(angle_imbalance)
    IN  (wind - wind_adjustment) % FullCircle

\* step 8: abs(new_wind - current_wind) < WIND_CONVERGENCE_THRESHOLD_DEGREES
converged(new_wind, wind) ==
    Abs(new_wind - wind) < WIND_CONVERGENCE_THRESHOLD_DEGREES * Deg

\* previous_wind is not None and abs(new_wind - previous_wind) < threshold
oscillating(new_wind, prev) ==
    /\ prev # None
    /\ Abs(new_wind - prev[1]) < WIND_CONVERGENCE_THRESHOLD_DEGREES * Deg

\* (current_wind + new_wind) / 2.0
oscillation_average(wind, new_wind) == Half(wind + new_wind)

\* the check that ends an iteration before a hypothesis is computed
insufficient(upwind) ==
    \/ Len(upwind) < MIN_SEGMENTS_FOR_ESTIMATION
    \/ Len(SelectSeq(upwind, IsPort)) = 0
    \/ Len(SelectSeq(upwind, IsStarboard)) = 0

\* the result record the function starts from and returns on an early exit
initial_result(wind) ==
    [direction |-> wind, confidence |-> "low", user_provided |-> TRUE,
     port_angle |-> None, starboard_angle |-> None,
     port_count |-> 0, starboard_count |-> 0]

\* an aborted first iteration returns at once, a later one breaks out of the loop
abort_target(iter) == IF iter = 0 THEN "done" ELSE "final"

\* for iteration in range(max_iterations): is there an iteration after this one
loop_continues(iter, max_iter) == iter + 1 < max_iter

\* the entry appended to iteration_history
iteration_record(iter, new_wind, port_median, starboard_median, port_tack, starboard_tack) ==
    [iteration |-> iter + 1,
     wind |-> new_wind,
     port_median |-> port_median,
     starboard_median |-> starboard_median,
     imbalance |-> Abs(starboard_median - port_median),
     port_count |-> Len(port_tack),
     starboard_count |-> Len(starboard_tack)]

\* the confidence tier of the final statistics
confidence_of(port_angle, starboard_angle, final_port, final_starboard, final_upwind) ==
    IF port_angle # None /\ starboard_angle # None
    THEN LET final_imbalance == Abs(port_angle[1] - starboard_angle[1])
             total_distance == SumDistance(final_upwind)
         IN  IF /\ final_imbalance < MEDIUM_CONFIDENCE_TACK_DIFF_DEGREES * Deg
                /\ Len(final_port) >= MIN_SEGMENTS_FOR_ESTIMATION
                /\ Len(final_starboard) >= MIN_SEGMENTS_FOR_ESTIMATION
                /\ total_distance > HIGH_CONFIDENCE_MIN_DISTANCE_METERS
             THEN "high"
             ELSE IF final_imbalance < MAX_TACK_DIFF_FOR_ADJUSTMENT_DEGREES * Deg
                  THEN "medium"
                  ELSE "low"
    ELSE "low"

\* a faulty variant of tack_statistics: the raw number of upwind segments on the tack reported
tack_statistics_raw_count(tack_df, max_fraction) ==
    IF Len(tack_df) > 0
    THEN <<Some(median_angle(get_best_pointing_segments(
                    tack_df, BEST_POINTING_MIN_COUNT, max_fraction))), Len(tack_df)>>
    ELSE <<None, 0>>

\* the statistics of one tack: <<angle, best count>>
tack_statistics(tack_df, max_fraction) ==
    IF Len(tack_df) > 0
    THEN CHOOSE st \in {<<Some(median_angle(best)), Len(best)>> :
                           best \in {get_best_pointing_segments(
                                        tack_df, BEST_POINTING_MIN_COUNT, max_fraction)}} : TRUE
    ELSE <<None, 0>>

\* the WindEstimate of the final statistics
wind_estimate(wind, final_upwind, final_port, final_starboard, port, starboard) ==
    [direction |-> wind,
     confidence |-> confidence_of(port[1], starboard[1], final_port,
                                  final_starboard, final_upwind),
     user_provided |-> FALSE,
     port_angle |-> port[1],
     starboard_angle |-> starboard[1],
     port_count |-> port[2],
     starboard_count |-> starboard[2]]

\* the WindEstimate built after the loop
final_result(segs, wind, angle_threshold, min_distance, max_fraction) ==
    CHOOSE estimate \in
        {wind_estimate(wind, final_upwind, final_port, final_starboard,
                       tack_statistics(final_port, max_fraction),
                       tack_statistics(final_starboard, max_fraction)) :
            <<final_upwind, final_port, final_starboard>> \in
                {<<u, SelectSeq(u, IsPort), SelectSeq(u, IsStarboard)>> :
                    u \in {final_upwind_of(segs, wind, angle_threshold, min_distance)}}} : TRUE

(***************************************************************************)
(* The quality score and the user-guided search                            *)
(* (backend/core/wind/algorithms.py).                                      *)
(***************************************************************************)
\* the largest r in lo..hi with r * r <= x
RECURSIVE isqrt_between(_, _, _)
isqrt_between(x, lo, hi) ==
    IF lo >= hi THEN lo
    ELSE LET mid == (lo + hi + 1) \div 2
         IN  IF mid * mid <= x THEN isqrt_between(x, mid, hi)
             ELSE isqrt_between(x, lo, mid - 1)

RECURSIVE sum_quarters(_, _)
sum_quarters(rows, power) ==
    IF Len(rows) = 0 THEN 0
    ELSE (IF power = 2
          THEN (Head(rows).angle_to_wind \div (Deg \div 4))
                   * (Head(rows).angle_to_wind \div (Deg \div 4))
          ELSE Head(rows).angle_to_wind \div (Deg \div 4))
         + sum_quarters(Tail(rows), power)

\* np.std of the angle_to_wind column (the population standard deviation),
\* from the angles in quarter degrees, rounded down to 1/40 degree
std_angle(rows) ==
    LET n == Len(rows)
        variance_n2 == n * sum_quarters(rows, 2)
                           - sum_quarters(rows, 1) * sum_quarters(rows, 1)
    IN  isqrt_between(100 * variance_n2, 0, 30000) \div n

\* 1 - min(upwind_spread / WIND_SEARCH_RANGE_DEGREES, 1)
normalized_spread_of(upwind_spread) ==
    PartUnits - Min((upwind_spread * PartUnits)
                        \div (WIND_SEARCH_RANGE_DEGREES * SpreadUnits), PartUnits)

calculate_wind_score(segs) ==
    LET upwind == SelectSeq(segs, IsUpwind)
        port_upwind == SelectSeq(upwind, IsPort)
        starboard_upwind == SelectSeq(upwind, IsStarboard)
        tack_balance ==
            IF Len(port_upwind) > 0 /\ Len(starboard_upwind) > 0
            THEN (Min(Len(port_upwind), Len(starboard_upwind)) * PartUnits)
                     \div Max(Len(port_upwind), Len(starboard_upwind))
            ELSE 0
        upwind_downwind_balance ==
            (Min(Len(upwind), Len(segs) - Len(upwind)) * PartUnits)
                \div Max(Max(Len(upwind), Len(segs) - Len(upwind)), 1)
        normalized_spread ==
            IF Len(upwind) >= MIN_SEGMENTS_FOR_ESTIMATION
            THEN normalized_spread_of(std_angle(upwind))
            ELSE 0
    IN  UPWIND_WEIGHT * tack_balance + SPREAD_WEIGHT * normalized_spread
            + BALANCE_WEIGHT * upwind_downwind_balance

\* round(): to the nearest whole degree, a half to the even one
round_degrees(x) ==
    LET whole == x \div Deg
        rest == x % Deg
    IN  IF rest < Deg \div 2 THEN whole
        ELSE IF rest > Deg \div 2 THEN whole + 1
        ELSE IF whole % 2 = 0 THEN whole ELSE whole + 1

\* np.linspace(-range_width/2, range_width/2, num_steps)
candidate_offsets ==
    LET num_steps == WIND_SEARCH_RANGE_WIDTH_DEGREES \div WIND_SEARCH_STEP_DEGREES + 1
    IN  [k \in 1..num_steps |->
            (k - 1) * WIND_SEARCH_STEP_DEGREES - WIND_SEARCH_RANGE_WIDTH_DEGREES \div 2]

intermediate_offsets == <<5, 0 - 5, 15, 0 - 15, 25, 0 - 25>>

\* the candidates in whole degrees, duplicates removed
candidate_winds(user_direction) ==
    {round_degrees(user_direction + offset * Deg) % FULL_CIRCLE_DEGREES :
        offset \in {candidate_offsets[k] : k \in DOMAIN candidate_offsets}
                       \cup {intermediate_offsets[k] : k \in DOMAIN intermediate_offsets}}

\* the score of every candidate
candidate_scores_of(segs, user_direction) ==
    [wind \in candidate_winds(user_direction) |->
        calculate_wind_score(analyze_wind_angles(segs, wind * Deg))]

\* a faulty variant of best_candidate: the first of the worst candidates
worst_candidate(scores) ==
    CHOOSE wind \in DOMAIN scores :
        /\ \A other \in DOMAIN scores : scores[other] >= scores[wind]
        /\ \A other \in DOMAIN scores : scores[other] = scores[wind] => wind <= other

\* max(candidate_scores, key = score) over the candidates in ascending order:
\* the first of the best ones
best_candidate(scores) ==
    CHOOSE wind \in DOMAIN scores :
        /\ \A other \in DOMAIN scores : scores[other] <= scores[wind]
        /\ \A other \in DOMAIN scores : scores[other] = scores[wind] => wind <= other

\* <<estimated wind, score>>, the wind absent when the score is too low
user_guided_wind_estimation(scores) ==
    LET best_wind == best_candidate(scores)
        best_score == scores[best_wind]
    IN  IF best_score > MIN_SCORE_FOR_USER_GUIDED
        THEN <<Some(best_wind), best_score>>
        ELSE <<None, best_score>>

(***************************************************************************)
(* Time and spatial filtering (backend/core/filtering.py).  A segment row  *)
(* carries start_idx and end_idx and, when the frame has the time columns, *)
(* start_time and end_time; a time is absent (None or NaT) or Some(t).     *)
(***************************************************************************)
\* Series.notna() on one value
notna(t) == t # None /\ ~IsNaT(t)

\* 'start_time' in segments.columns and 'end_time' in segments.columns
has_time_columns(segs) ==
    "start_time" \in DOMAIN segs[1] /\ "end_time" \in DOMAIN segs[1]

\* a faulty variant of filter_segments_by_time: rows without a time are dropped
filter_time_drops_missing(segs, time_start, time_end) ==
    LET EndsAfterStart(r) ==
            time_start # None => (notna(r.end_time) /\ r.end_time[1] >= time_start[1])
        StartsBeforeEnd(r) ==
            time_end # None => (notna(r.start_time) /\ r.start_time[1] <= time_end[1])
        Kept(r) == EndsAfterStart(r) /\ StartsBeforeEnd(r)
    IN  IF Len(segs) = 0 THEN segs
        ELSE IF ~has_time_columns(segs) THEN segs
        ELSE SelectSeq(segs, Kept)

filter_segments_by_time(segs, time_start, time_end) ==
    IF Len(segs) = 0 THEN segs
    ELSE IF ~has_time_columns(segs) THEN segs
    ELSE LET has_time_data ==
                 /\ \E i \in 1..Len(segs) : notna(segs[i].start_time)
                 /\ \E i \in 1..Len(segs) : notna(segs[i].end_time)
             EndsAfterStart(r) ==
                 \/ notna(r.end_time) /\ r.end_time[1] >= time_start[1]
                 \/ ~notna(r.end_time)
             StartsBeforeEnd(r) ==
                 \/ notna(r.start_time) /\ r.start_time[1] <= time_end[1]
                 \/ ~notna(r.start_time)
             after_start ==
                 IF time_start # None THEN SelectSeq(segs, EndsAfterStart) ELSE segs
         IN  IF ~has_time_data THEN segs
             ELSE IF time_end # None THEN SelectSeq(after_start, StartsBeforeEnd)
             ELSE after_start

\* a faulty variant of segment_in_bounds: every point of the segment must lie
\* within the bounds
segment_all_in_bounds(row, track_data, lat_min, lat_max, lon_min, lon_max) ==
    \A k \in 0..(Len(track_data) - 1) :
        (row.start_idx <= k /\ k <= row.end_idx) =>
            /\ track_data[k + 1].latitude >= lat_min
            /\ track_data[k + 1].latitude <= lat_max
            /\ track_data[k + 1].longitude >= lon_min
            /\ track_data[k + 1].longitude <= lon_max

\* the inner function of filter_segments_by_spatial_bounds: some point of
\* track_data.iloc[start_idx:end_idx + 1] lies within the bounds
segment_in_bounds(row, track_data, lat_min, lat_max, lon_min, lon_max) ==
    \E k \in 0..(Len(track_data) - 1) :
        /\ row.start_idx <= k /\ k <= row.end_idx
        /\ track_data[k + 1].latitude >= lat_min
        /\ track_data[k + 1].latitude <= lat_max
        /\ track_data[k + 1].longitude >= lon_min
        /\ track_data[k + 1].longitude <= lon_max

filter_segments_by_spatial_bounds(segs, track_data, lat_bounds, lon_bounds) ==
    IF Len(segs) = 0 THEN segs
    ELSE IF lat_bounds = None /\ lon_bounds = None THEN segs
    ELSE IF ~("start_idx" \in DOMAIN segs[1] /\ "end_idx" \in DOMAIN segs[1]) THEN segs
    ELSE IF \/ Len(track_data) = 0
            \/ ~("latitude" \in DOMAIN track_data[1] /\ "longitude" \in DOMAIN track_data[1])
         THEN segs
    ELSE LET lat == IF lat_bounds # None THEN lat_bounds ELSE <<0 - 90, 90>>
             lon == IF lon_bounds # None THEN lon_bounds ELSE <<0 - 180, 180>>
             lat_min == IF lat[1] > lat[2] THEN lat[2] ELSE lat[1]
             lat_max == IF lat[1] > lat[2] THEN lat[1] ELSE lat[2]
             lon_min == IF lon[1] > lon[2] THEN lon[2] ELSE lon[1]
             lon_max == IF lon[1] > lon[2] THEN lon[1] ELSE lon[2]
             InBounds(row) ==
                 segment_in_bounds(row, track_data, lat_min, lat_max, lon_min, lon_max)
         IN  SelectSeq(segs, InBounds)

apply_filters(segs, track_data, time_start, time_end, lat_bounds, lon_bounds) ==
    IF Len(segs) = 0 THEN segs
    ELSE LET by_time ==
                 IF time_start # None \/ time_end # None
                 THEN filter_segments_by_time(segs, time_start, time_end)
                 ELSE segs
         IN  IF lat_bounds # None \/ lon_bounds # None
             THEN filter_segments_by_spatial_bounds(by_time, track_data,
                                                    lat_bounds, lon_bounds)
             ELSE by_time

\* a faulty variant of validate_filter_params: the longitude checked before
\* the latitude
validate_longitude_first(time_start, time_end, lat_bounds, lon_bounds) ==
    IF time_start # None /\ time_end # None /\ time_start[1] > time_end[1]
    THEN <<FALSE, Some("time_start must be before time_end")>>
    ELSE IF lon_bounds # None /\ (lon_bounds[1] < 0 - 180 \/ lon_bounds[2] > 180)
    THEN <<FALSE, Some("Longitude must be between -180 and 180")>>
    ELSE IF lon_bounds # None /\ lon_bounds[1] > lon_bounds[2]
    THEN <<FALSE, Some("lon_min must be less than lon_max")>>
    ELSE IF lat_bounds # None /\ (lat_bounds[1] < 0 - 90 \/ lat_bounds[2] > 90)
    THEN <<FALSE, Some("Latitude must be between -90 and 90")>>
    ELSE IF lat_bounds # None /\ lat_bounds[1] > lat_bounds[2]
    THEN <<FALSE, Some("lat_min must be less than lat_max")>>
    ELSE <<TRUE, None>>

\* <<is_valid, error_message>>
validate_filter_params(time_start, time_end, lat_bounds, lon_bounds) ==
    IF time_start # None /\ time_end # None /\ time_start[1] > time_end[1]
    THEN <<FALSE, Some("time_start must be before time_end")>>
    ELSE IF lat_bounds # None /\ (lat_bounds[1] < 0 - 90 \/ lat_bounds[2] > 90)
    THEN <<FALSE, Some("Latitude must be between -90 and 90")>>
    ELSE IF lat_bounds # None /\ lat_bounds[1] > lat_bounds[2]
    THEN <<FALSE, Some("lat_min must be less than lat_max")>>
    ELSE IF lon_bounds # None /\ (lon_bounds[1] < 0 - 180 \/ lon_bounds[2] > 180)
    THEN <<FALSE, Some("Longitude must be between -180 and 180")>>
    ELSE IF lon_bounds # None /\ lon_bounds[1] > lon_bounds[2]
    THEN <<FALSE, Some("lon_min must be less than lon_max")>>
    ELSE <<TRUE, None>>

(***************************************************************************)
(* estimate_wind_direction_iterative as a state machine: entry, one step   *)
(* per loop iteration, the final analysis.                                 *)
(***************************************************************************)
\* the result is initialised and empty input returns it at once
Validate ==
    /\ pc = "start"
    /\ result' = Some(initial_result(initial_wind))
    /\ IF Len(segments) = 0
       THEN /\ pc' = "done"
            /\ outcome' = "NO_SEGMENTS"
            /\ UNCHANGED <<current_wind, previous_wind>>
       ELSE /\ pc' = "loop"
            /\ outcome' = "ITERATE"
            /\ current_wind' = initial_wind
            /\ previous_wind' = None
    /\ iteration' = 0
    /\ iteration_history' = <<>>
    /\ UNCHANGED <<args, detector_vars, classify_vars>>

\* one pass of the loop body
Iterate ==
    /\ pc = "loop"
    /\ \E upwind \in {upwind_of(segments, current_wind, suspicious_angle_threshold,
                                min_segment_distance)} :
       IF insufficient(upwind)
       THEN /\ outcome' = "INSUFFICIENT_DATA"
            /\ pc' = abort_target(iteration)
            /\ UNCHANGED <<iteration, current_wind, previous_wind, iteration_history>>
       ELSE \E port_tack \in {SelectSeq(upwind, IsPort)},
               starboard_tack \in {SelectSeq(upwind, IsStarboard)} :
            \E port_median \in {median_angle(get_best_pointing_segments(
                                     port_tack, BEST_POINTING_MIN_COUNT,
                                     best_attempts_fraction))},
               starboard_median \in {median_angle(get_best_pointing_segments(
                                          starboard_tack, BEST_POINTING_MIN_COUNT,
                                          best_attempts_fraction))} :
            \E new_wind \in {new_wind_of(current_wind, port_median, starboard_median)} :
                /\ iteration_history' =
                       Append(iteration_history,
                              iteration_record(iteration, new_wind, port_median,
                                               starboard_median, port_tack, starboard_tack))
                /\ IF converged(new_wind, current_wind)
                   THEN /\ current_wind' = new_wind
                        /\ outcome' = "CONVERGED"
                        /\ pc' = "final"
                        /\ UNCHANGED <<iteration, previous_wind>>
                   ELSE IF oscillating(new_wind, previous_wind)
                   THEN /\ current_wind' = oscillation_average(current_wind, new_wind)
                        /\ outcome' = "OSCILLATING"
                        /\ pc' = "final"
                        /\ UNCHANGED <<iteration, previous_wind>>
                   ELSE /\ previous_wind' = Some(current_wind)
                        /\ current_wind' = new_wind
                        /\ IF loop_continues(iteration, max_iterations)
                           THEN /\ iteration' = iteration + 1
                                /\ pc' = "loop"
                                /\ outcome' = "ITERATE"
                           ELSE /\ pc' = "final"
                                /\ outcome' = "MAX_ITER_REACHED"
                                /\ UNCHANGED iteration
    /\ UNCHANGED <<args, result, detector_vars, classify_vars>>

\* the final analysis under the hypothesis the loop ended with
Finalize ==
    /\ pc = "final"
    /\ result' = Some(final_result(segments, current_wind, suspicious_angle_threshold,
                                   min_segment_distance, best_attempts_fraction))
    /\ pc' = "done"
    /\ UNCHANGED <<args, locals, detector_vars, classify_vars>>

Next == Validate \/ Iterate \/ Finalize

(***************************************************************************)
(* The segment detector (backend/core/segments/detector.py).  A track is   *)
(* its points df, each with an optional time, and its legs: legs[i] holds  *)
(* what calculate_bearing and calculate_distance give for the points i and *)
(* i + 1.  Row indices are 0-based as in the source: row k is df[k + 1].   *)
(***************************************************************************)
\* the duration appended for the loop index i (0-based)
duration_at(points, i) ==
    IF i > 0 /\ points[i + 1].time # None /\ points[i].time # None
    THEN total_seconds(points[i + 1].time, points[i].time)
    ELSE 0

\* the metrics row for the loop index i (0-based)
metrics_row(points, track_legs, i) ==
    [time |-> points[i + 1].time,
     bearing |-> track_legs[i + 1].bearing,
     distance_m |-> track_legs[i + 1].distance,
     duration_sec |-> duration_at(points, i)]

calculate_point_metrics(points, track_legs) ==
    IF Len(points) < 2 THEN points
    ELSE LET n == Len(points)
             last == metrics_row(points, track_legs, n - 2)
         IN  [k \in 1..n |->
                 IF k < n THEN metrics_row(points, track_legs, k - 1)
                 ELSE [time |-> points[n].time,
                       bearing |-> last.bearing,
                       distance_m |-> last.distance_m,
                       duration_sec |-> last.duration_sec]]

\* the angular difference of detect_angle_changes, handling the 0/360 wraparound
angle_diff(current_point_bearing, current_bearing) ==
    Min((current_point_bearing - current_bearing) % FullCircle,
        (current_bearing - current_point_bearing) % FullCircle)

\* the stretch closed when the point at index i breaks the tolerance
closed_range(current_start, i) == <<current_start, i - 1>>

detect_angle_changes(rows, tolerance) ==
    IF Len(rows) < 2 THEN <<>>
    ELSE LET n == Len(rows)
             \* the loop state after the iteration for index i
             scan[i \in 0..(n - 1)] ==
                 IF i = 0
                 THEN [current_start |-> 0, current_bearing |-> rows[1].bearing,
                       found |-> <<>>]
                 ELSE IF angle_diff(rows[i + 1].bearing, scan[i - 1].current_bearing)
                            > tolerance
                      THEN [current_start |-> i,
                            current_bearing |-> rows[i + 1].bearing,
                            found |-> Append(scan[i - 1].found,
                                             closed_range(scan[i - 1].current_start, i))]
                      ELSE scan[i - 1]
             end == scan[n - 1]
         IN  IF end.current_start < n - 1
             THEN Append(end.found, <<end.current_start, n - 1>>)
             ELSE end.found

\* stretch_data['distance_m'].sum()
sum_distance_m(rows) ==
    LET sum[i \in 0..Len(rows)] == IF i = 0 THEN 0 ELSE sum[i - 1] + rows[i].distance_m
    IN  sum[Len(rows)]

\* stretch_data['duration_sec'].sum(), which skips nan
sum_duration_sec(rows) ==
    LET sum[i \in 0..Len(rows)] ==
            IF i = 0 THEN 0
            ELSE IF IsNaN(rows[i].duration_sec) THEN sum[i - 1]
            ELSE sum[i - 1] + rows[i].duration_sec
    IN  sum[Len(rows)]

\* the bearing from the start of the stretch
segment_bearing(stretch_data) == stretch_data[1].bearing

\* end_time - start_time, or the summed durations when a time is missing
total_duration_of(stretch_data) ==
    LET start_time == stretch_data[1].time
        end_time == stretch_data[Len(stretch_data)].time
    IN  IF start_time # None /\ end_time # None
        THEN total_seconds(end_time, start_time)
        ELSE sum_duration_sec(stretch_data)

\* the average speed in units of 0.00001 knots, rounded down
avg_speed_knots_of(total_distance, total_duration) ==
    IF total_duration > 0
    THEN (total_distance * METERS_PER_SECOND_TO_KNOTS) \div total_duration
    ELSE 0

\* the Segment built from one stretch
segment_of(rows, start_idx, end_idx) ==
    LET stretch_data == SubSeq(rows, start_idx + 1, Min(end_idx + 1, Len(rows)))
    IN  [start_time |-> stretch_data[1].time,
         end_time |-> stretch_data[Len(stretch_data)].time,
         start_idx |-> start_idx,
         end_idx |-> end_idx,
         bearing |-> segment_bearing(stretch_data),
         distance |-> sum_distance_m(stretch_data),
         duration |-> total_duration_of(stretch_data),
         avg_speed_knots |-> avg_speed_knots_of(sum_distance_m(stretch_data),
                                                total_duration_of(stretch_data)),
         point_count |-> Len(stretch_data)]

\* a stretch build_segments does not skip
is_buildable(rows, stretch) ==
    /\ ~(stretch[1] >= stretch[2])
    /\ ~(Min(stretch[2] + 1, Len(rows)) - stretch[1] < 2)

build_segments(rows, found) ==
    LET Buildable(stretch) == is_buildable(rows, stretch)
        kept == SelectSeq(found, Buildable)
    IN  [k \in 1..Len(kept) |-> segment_of(rows, kept[k][1], kept[k][2])]

filter_valid_segments(segs, min_distance, min_duration) ==
    LET Valid(segment) ==
            /\ segment.distance >= min_distance
            /\ segment.duration >= min_duration
    IN  SelectSeq(segs, Valid)

\* the rows validate_and_clean_segments keeps: no nan in distance, duration or
\* bearing, none of them negative, the bearing within 0..360 and the speed
\* within 0..200 knots
is_clean(segment) ==
    /\ ~IsNaN(segment.duration)
    /\ segment.distance >= 0
    /\ segment.duration >= 0
    /\ 0 <= segment.bearing /\ segment.bearing <= FullCircle
    /\ 0 <= segment.avg_speed_knots
    /\ segment.avg_speed_knots <= MAX_CLEAN_SPEED_KNOTS * KnotUnits

validate_and_clean_segments(segs) == SelectSeq(segs, is_clean)

\* the thresholds a run is given: none, or 50 m and 5 s
MinDistanceInputs == {0, DEFAULT_MIN_SEGMENT_DISTANCE_METERS}
MinDurationInputs == {0, 5}

(***************************************************************************)
(* The detector as a state machine: the three steps that                   *)
(* find_consistent_angle_stretches runs in this order.                     *)
(***************************************************************************)
CalculatePointMetrics ==
    /\ pc = "metrics"
    /\ df_with_metrics' = calculate_point_metrics(df, legs)
    /\ pc' = "detect"
    /\ UNCHANGED <<solver_vars, classify_vars, detector_args, stretches, built_segments, filter_vars>>

DetectAngleChanges ==
    /\ pc = "detect"
    /\ stretches' = detect_angle_changes(df_with_metrics, angle_tolerance)
    /\ pc' = "build"
    /\ UNCHANGED <<solver_vars, classify_vars, detector_args, df_with_metrics, built_segments, filter_vars>>

BuildSegments ==
    /\ pc = "build"
    /\ built_segments' = build_segments(df_with_metrics, stretches)
    /\ pc' = "filter"
    /\ UNCHANGED <<solver_vars, classify_vars, detector_args, df_with_metrics, stretches, filter_vars>>

\* steps 4 and 5: the thresholds, which no earlier step reads, are drawn here
FilterValidSegments ==
    /\ pc = "filter"
    /\ \E min_distance \in MinDistanceInputs, min_duration \in MinDurationInputs :
          /\ min_distance_meters' = min_distance
          /\ min_duration_seconds' = min_duration
          /\ valid_segments' = filter_valid_segments(built_segments, min_distance, min_duration)
          /\ cleaned_df' = validate_and_clean_segments(
                               filter_valid_segments(built_segments, min_distance,
                                                     min_duration))
    /\ pc' = "done"
    /\ UNCHANGED <<solver_vars, classify_vars, detector_args, df_with_metrics, stretches, built_segments>>

NextSegments ==
    CalculatePointMetrics \/ DetectAngleChanges \/ BuildSegments \/ FilterValidSegments

(***************************************************************************)
(* Inputs.                                                                 *)
(***************************************************************************)
MaxSegments == 6
MaxIterations == 3

\* q quarter degrees, in units
Quarter(q) == q * (Deg \div 4)

\* 0, 44.75, 45.25, 89.75, 270 and 314.75 degrees
BearingInputs == <<Quarter(0), Quarter(179), Quarter(181), Quarter(359),
                   Quarter(1080), Quarter(1259)>>

\* the kinds of segment an input is drawn from, long ones and two short ones
SegmentKinds ==
    [i \in 1..Len(BearingInputs) |-> [bearing |-> BearingInputs[i], distance |-> 200]]
    \o <<[bearing |-> Quarter(179), distance |-> 40],
         [bearing |-> Quarter(1259), distance |-> 40]>>

\* the non-decreasing index sequences of length n over lo..hi
RECURSIVE NonDecreasing(_, _, _)
NonDecreasing(n, lo, hi) ==
    IF n = 0 THEN {<<>>}
    ELSE UNION {{<<k>> \o s : s \in NonDecreasing(n - 1, k, hi)} : k \in lo..hi}

SegmentInputs ==
    UNION {{[i \in 1..n |-> SegmentKinds[idx[i]]] :
               idx \in NonDecreasing(n, 1, Len(SegmentKinds))} : n \in 0..MaxSegments}

\* -0.5, 20 and 450 degrees
WindInputs == {0 - Deg \div 2, 20 * Deg, 450 * Deg}

\* <<suspicious_angle_threshold, min_segment_distance>>: the defaults, or no filtering
FilterInputs == {<<DEFAULT_SUSPICIOUS_ANGLE_THRESHOLD, DEFAULT_MIN_SEGMENT_DISTANCE_METERS>>,
                 <<0, 0>>}

FractionInputs == {DEFAULT_BEST_ATTEMPTS_PERCENT, 100}

Entry ==
    /\ pc = "start"
    /\ iteration = 0
    /\ current_wind = 0
    /\ previous_wind = None
    /\ iteration_history = <<>>
    /\ outcome = "INIT"
    /\ result = None

\* no filter has been given arguments or applied
FilteringIdle ==
    /\ filter_args = <<>>
    /\ time_filtered = <<>>
    /\ space_filtered = <<>>
    /\ params_verdict = <<>>

\* analyze_track_data is not running
TrackIdle ==
    /\ track_args = <<>>
    /\ validation_error = <<>>
    /\ track_result = <<>>

\* the classification functions have not been applied
ClassifyIdle ==
    /\ analyzed_df = <<>>
    /\ tack_labels = <<>>
    /\ best_df = <<>>
    /\ wind_score = 0
    /\ user_wind_direction = 0
    /\ candidate_scores = <<>>
    /\ guided_estimate = <<>>
    /\ FilteringIdle
    /\ TrackIdle

\* the filter step has not run
FilterUnset ==
    /\ min_distance_meters = 0
    /\ min_duration_seconds = 0
    /\ valid_segments = <<>>
    /\ cleaned_df = <<>>

\* the detector's variables while the solver runs
DetectorIdle ==
    /\ df = <<>>
    /\ legs = <<>>
    /\ angle_tolerance = 0
    /\ df_with_metrics = <<>>
    /\ stretches = <<>>
    /\ built_segments = <<>>
    /\ FilterUnset

Init ==
    /\ segments \in SegmentInputs
    /\ initial_wind \in WindInputs
    /\ \E f \in FilterInputs :
          /\ suspicious_angle_threshold = f[1]
          /\ min_segment_distance = f[2]
    /\ max_iterations \in 1..MaxIterations
    /\ best_attempts_fraction \in FractionInputs
    /\ Entry
    /\ DetectorIdle
    /\ ClassifyIdle

Spec == Init /\ [][Next]_vars

\* the call is synchronous and runs to completion: no step is left pending.
\* The runs of up to MaxSegments - 2 segments under the default parameters.
FairInit ==
    /\ Init
    /\ Len(segments) <= MaxSegments - 2
    /\ suspicious_angle_threshold = DEFAULT_SUSPICIOUS_ANGLE_THRESHOLD
    /\ best_attempts_fraction = DEFAULT_BEST_ATTEMPTS_PERCENT

FairSpec == FairInit /\ [][Next]_vars /\ WF_vars(Next)

(***************************************************************************)
(* Synthetic symmetric data: per_tack segments at true wind + 45 degrees   *)
(* and as many at true wind - 45 degrees, every one long enough, nothing   *)
(* flagged by the outlier predicate, the default iteration budget.         *)
(***************************************************************************)
MaxPerTack == 4

\* 0, 10, 180 and 350 degrees
TrueWindInputs == {0, 10 * Deg, 180 * Deg, 350 * Deg}

\* the initial hypothesis minus the true wind, in quarter degrees
OffsetInputs == {0, 1, -2, 40, -120, 176, 179, -179, 180, -180, 181, 240, -300,
                 359, -359, 360, 480, 720}

\* k segments on one bearing, the first long of them 200 m and the others 60 m
tack_segments(bearing, k, long) ==
    [i \in 1..k |-> [bearing |-> bearing, distance |-> IF i <= long THEN 200 ELSE 60]]

SymmetricInit ==
    /\ \E w \in TrueWindInputs, per_tack \in 3..MaxPerTack :
       \E port_long \in 0..per_tack, starboard_long \in 0..per_tack, d \in OffsetInputs :
          /\ segments = tack_segments((w + 45 * Deg) % FullCircle, per_tack, port_long)
                            \o tack_segments((w - 45 * Deg) % FullCircle, per_tack,
                                              starboard_long)
          /\ initial_wind \in {w + Quarter(d), (w + Quarter(d)) % FullCircle}
    /\ suspicious_angle_threshold = 0
    /\ min_segment_distance = DEFAULT_MIN_SEGMENT_DISTANCE_METERS
    /\ max_iterations = DEFAULT_MAX_ITERATIONS
    /\ best_attempts_fraction = DEFAULT_BEST_ATTEMPTS_PERCENT
    /\ Entry
    /\ DetectorIdle
    /\ ClassifyIdle

SpecSymmetric == SymmetricInit /\ [][Next]_vars

(***************************************************************************)
(* Tracks for the segment detector.                                        *)
(***************************************************************************)
MaxPoints == 5

\* 0, 10, 40 and 350 degrees
LegBearingInputs == {0, 10 * Deg, 40 * Deg, 350 * Deg}

\* 10 and 25 degrees
ToleranceInputs == {10 * Deg, 25 * Deg}

\* how the missing time of a point shows among the times of the others: as None
\* (a column of objects) or as NaT (what pd.DataFrame makes of a column of
\* datetimes with a gap)
MissingInputs == {None, NaT}

\* the points of a track of n points: point k (0-based) is recorded at k * k
\* seconds; no_time is the index of the point without a time, n for none, n + 1
\* for all of them, in which case every time is None
track_points(n, no_time, missing) ==
    [k \in 1..n |->
        [time |-> IF no_time = n + 1 THEN None
                  ELSE IF no_time = k - 1 THEN missing
                  ELSE Some((k - 1) * (k - 1))]]

\* the legs of a track: 30 m each, but for the leg short_leg of 5 m (0 for none)
track_legs_of(bearings, short_leg) ==
    [k \in 1..Len(bearings) |->
        [bearing |-> bearings[k], distance |-> IF k = short_leg THEN 5 ELSE 30]]

\* the solver's variables while the detector runs
SolverIdle ==
    /\ segments = <<>>
    /\ initial_wind = 0
    /\ suspicious_angle_threshold = DEFAULT_SUSPICIOUS_ANGLE_THRESHOLD
    /\ min_segment_distance = DEFAULT_MIN_SEGMENT_DISTANCE_METERS
    /\ max_iterations = DEFAULT_MAX_ITERATIONS
    /\ best_attempts_fraction = DEFAULT_BEST_ATTEMPTS_PERCENT
    /\ iteration = 0
    /\ current_wind = 0
    /\ previous_wind = None
    /\ iteration_history = <<>>
    /\ outcome = "INIT"
    /\ result = None

InitSegments ==
    /\ \E n \in 0..MaxPoints :
       \E no_time \in 0..(n + 1), short_leg \in 0..Max(n - 1, 0), missing \in MissingInputs :
       \E bearings \in [1..(IF n = 0 THEN 0 ELSE n - 1) -> LegBearingInputs] :
          /\ df = track_points(n, no_time, missing)
          /\ legs = track_legs_of(bearings, short_leg)
    /\ angle_tolerance \in ToleranceInputs
    /\ df_with_metrics = <<>>
    /\ stretches = <<>>
    /\ built_segments = <<>>
    /\ FilterUnset
    /\ SolverIdle
    /\ ClassifyIdle
    /\ pc = "metrics"

SpecSegments == InitSegments /\ [][NextSegments]_vars

(***************************************************************************)
(* detect_angle_changes on its own: any sequence of bearings, not only one *)
(* that calculate_point_metrics produced.                                  *)
(***************************************************************************)
\* rows carrying the bearings given
bearing_rows(bearings) ==
    [k \in 1..Len(bearings) |->
        [time |-> None, bearing |-> bearings[k], distance_m |-> 30, duration_sec |-> 0]]

InitAngles ==
    /\ \E n \in 0..MaxPoints :
       \E bearings \in [1..n -> LegBearingInputs] :
          /\ df = track_points(n, n + 1, None)
          /\ df_with_metrics = bearing_rows(bearings)
    /\ legs = <<>>
    /\ angle_tolerance \in ToleranceInputs
    /\ stretches = <<>>
    /\ built_segments = <<>>
    /\ FilterUnset
    /\ SolverIdle
    /\ ClassifyIdle
    /\ pc = "detect"

NextAngles == DetectAngleChanges

SpecAngles == InitAngles /\ [][NextAngles]_vars

(***************************************************************************)
(* The classification functions on their own: analyze_wind_angles and      *)
(* determine_tack applied to any bearings and any wind value, then         *)
(* get_best_pointing_segments applied to the analysed rows.                *)
(***************************************************************************)
MaxClassified == 2
MaxTack == 5

\* -10, 0, 45, 89.75, 90, 135, 180, 270, 359.75 and 370 degrees
ClassifyBearingInputs ==
    {0 - 10 * Deg, 0, 45 * Deg, Quarter(359), 90 * Deg, 135 * Deg, 180 * Deg,
     270 * Deg, Quarter(1439), 370 * Deg}

\* -450, -90, -0.5, 0, 90, 180, 359.75, 360, 450 and 810 degrees
ClassifyWindInputs ==
    {0 - 450 * Deg, 0 - 90 * Deg, 0 - Deg \div 2, 0, 90 * Deg, 180 * Deg,
     Quarter(1439), 360 * Deg, 450 * Deg, 810 * Deg}

TackBearingInputs == {10 * Deg, 40 * Deg, 70 * Deg}

PickFractionInputs == {DEFAULT_BEST_ATTEMPTS_PERCENT, 80, 100}

\* segments of 200 m on the bearings given
rows_on(bearings) ==
    [k \in 1..Len(bearings) |-> [bearing |-> bearings[k], distance |-> 200]]

InitClassify ==
    /\ \/ \E n \in 0..MaxClassified :
          \E bearings \in [1..n -> ClassifyBearingInputs] :
             /\ segments = rows_on(bearings)
             /\ initial_wind \in ClassifyWindInputs
             /\ best_attempts_fraction = DEFAULT_BEST_ATTEMPTS_PERCENT
       \/ \E n \in (MaxClassified + 1)..MaxTack :
          \E bearings \in [1..n -> TackBearingInputs] :
             /\ segments = rows_on(bearings)
             /\ initial_wind = 0
             /\ best_attempts_fraction \in PickFractionInputs
    /\ suspicious_angle_threshold = DEFAULT_SUSPICIOUS_ANGLE_THRESHOLD
    /\ min_segment_distance = DEFAULT_MIN_SEGMENT_DISTANCE_METERS
    /\ max_iterations = DEFAULT_MAX_ITERATIONS
    /\ iteration = 0
    /\ current_wind = 0
    /\ previous_wind = None
    /\ iteration_history = <<>>
    /\ outcome = "INIT"
    /\ result = None
    /\ DetectorIdle
    /\ ClassifyIdle
    /\ pc = "classify"

\* analyze_wind_angles(segments, wind_direction), and determine_tack on each bearing
AnalyzeWindAngles ==
    /\ pc = "classify"
    /\ analyzed_df' = analyze_wind_angles(segments, initial_wind)
    /\ tack_labels' = [i \in 1..Len(segments) |->
                          determine_tack(segments[i].bearing, initial_wind)]
    /\ pc' = "pick"
    /\ UNCHANGED <<solver_vars, detector_vars, track_vars, best_df, score_vars, filtering_vars>>

\* get_best_pointing_segments(tack_df, max_fraction = best_attempts_fraction)
GetBestPointingSegments ==
    /\ pc = "pick"
    /\ best_df' = get_best_pointing_segments(analyzed_df, BEST_POINTING_MIN_COUNT,
                                             best_attempts_fraction)
    /\ pc' = "picked"
    /\ UNCHANGED <<solver_vars, detector_vars, track_vars, analyzed_df, tack_labels, score_vars,
                   filtering_vars>>

NextClassify == AnalyzeWindAngles \/ GetBestPointingSegments

SpecClassify == InitClassify /\ [][NextClassify]_vars

(***************************************************************************)
(* The quality score of analysed segments and the user-guided search on    *)
(* their own.                                                              *)
(***************************************************************************)
MaxScored == 4

\* 45, 50.25, 135, 225, 315 and 320 degrees
ScoreBearingInputs ==
    {45 * Deg, Quarter(201), 135 * Deg, 225 * Deg, 315 * Deg, 320 * Deg}

\* candidate winds for the score: 0, 20 and 450 degrees
ScoreWindInputs == {0, 20 * Deg, 450 * Deg}

\* user hints: 0, 0.5, 4.5 and 355 degrees
HintInputs == {0, Deg \div 2, 4 * Deg + Deg \div 2, 355 * Deg}

InitScore ==
    /\ \E n \in 0..MaxScored :
       \E bearings \in [1..n -> ScoreBearingInputs] :
          segments = rows_on(bearings)
    /\ \/ /\ pc = "classify"
          /\ initial_wind \in ScoreWindInputs
          /\ user_wind_direction = 0
       \/ /\ pc = "guide"
          /\ initial_wind = 0
          /\ user_wind_direction \in HintInputs
    /\ suspicious_angle_threshold = DEFAULT_SUSPICIOUS_ANGLE_THRESHOLD
    /\ min_segment_distance = DEFAULT_MIN_SEGMENT_DISTANCE_METERS
    /\ max_iterations = DEFAULT_MAX_ITERATIONS
    /\ best_attempts_fraction = DEFAULT_BEST_ATTEMPTS_PERCENT
    /\ iteration = 0
    /\ current_wind = 0
    /\ previous_wind = None
    /\ iteration_history = <<>>
    /\ outcome = "INIT"
    /\ result = None
    /\ DetectorIdle
    /\ analyzed_df = <<>>
    /\ tack_labels = <<>>
    /\ best_df = <<>>
    /\ wind_score = 0
    /\ candidate_scores = <<>>
    /\ guided_estimate = <<>>
    /\ FilteringIdle
    /\ TrackIdle

\* calculate_wind_score on the rows analyze_wind_angles returned
CalculateWindScore ==
    /\ pc = "pick"
    /\ wind_score' = calculate_wind_score(analyzed_df)
    /\ pc' = "scored"
    /\ UNCHANGED <<solver_vars, detector_vars, track_vars, analyzed_df, tack_labels, best_df,
                   user_wind_direction, candidate_scores, guided_estimate,
                   filtering_vars>>

\* user_guided_wind_estimation(segments, user_wind_direction)
UserGuidedWindEstimation ==
    /\ pc = "guide"
    /\ \E scores \in {candidate_scores_of(segments, user_wind_direction)} :
          /\ candidate_scores' = scores
          /\ guided_estimate' = user_guided_wind_estimation(scores)
    /\ pc' = "guided"
    /\ UNCHANGED <<solver_vars, detector_vars, track_vars, analyzed_df, tack_labels, best_df,
                   wind_score, user_wind_direction, filtering_vars>>

NextScore == AnalyzeWindAngles \/ CalculateWindScore \/ UserGuidedWindEstimation

SpecScore == InitScore /\ [][NextScore]_vars

(***************************************************************************)
(* The filters of backend/core/filtering.py on their own.                  *)
(***************************************************************************)
MaxFiltered == 3

\* the kinds of segment row a frame is drawn from: <<start_time, end_time,
\* start_idx, end_idx>>
FilterRowKinds ==
    {<<Some(10), Some(20), 0, 1>>, <<Some(30), Some(40), 2, 3>>,
     <<Some(20), Some(30), 1, 2>>, <<None, Some(20), 0, 1>>,
     <<Some(30), NaT, 2, 3>>, <<None, None, 3, 5>>}

filter_row(kind, time_columns) ==
    IF time_columns
    THEN [start_time |-> kind[1], end_time |-> kind[2],
          start_idx |-> kind[3], end_idx |-> kind[4]]
    ELSE [start_idx |-> kind[3], end_idx |-> kind[4]]

\* the frames of at most MaxFiltered rows, with or without the time columns
FilterSegmentInputs ==
    UNION {{[i \in 1..n |-> filter_row(kinds[i], time_columns)] :
               kinds \in [1..n -> FilterRowKinds], time_columns \in BOOLEAN} :
           n \in 0..MaxFiltered}

\* a track of four points going north-east
TrackDataInput ==
    <<[latitude |-> 0, longitude |-> 0], [latitude |-> 1, longitude |-> 10],
      [latitude |-> 2, longitude |-> 20], [latitude |-> 3, longitude |-> 30]>>

TimeBoundInputs == {None, Some(5), Some(20), Some(35)}

LatBoundInputs == {None, <<0, 1>>, <<1, 0>>, <<2, 9>>, <<0 - 91, 0>>, <<0, 91>>}

LonBoundInputs == {None, <<0, 10>>, <<25, 15>>, <<40, 50>>, <<0 - 181, 0>>, <<0, 181>>}

InitFilter ==
    /\ \/ /\ pc = "by_time"
          /\ \E segs \in FilterSegmentInputs,
                time_start \in TimeBoundInputs, time_end \in TimeBoundInputs :
                filter_args = [segments |-> segs, track_data |-> TrackDataInput,
                               time_start |-> time_start, time_end |-> time_end,
                               lat_bounds |-> None, lon_bounds |-> None]
       \/ /\ pc = "by_space"
          /\ \E segs \in FilterSegmentInputs,
                lat_bounds \in LatBoundInputs, lon_bounds \in LonBoundInputs :
                filter_args = [segments |-> segs, track_data |-> TrackDataInput,
                               time_start |-> None, time_end |-> None,
                               lat_bounds |-> lat_bounds, lon_bounds |-> lon_bounds]
       \/ /\ pc = "check_params"
          /\ \E time_start \in TimeBoundInputs, time_end \in TimeBoundInputs,
                lat_bounds \in LatBoundInputs, lon_bounds \in LonBoundInputs :
                filter_args = [segments |-> <<>>, track_data |-> TrackDataInput,
                               time_start |-> time_start, time_end |-> time_end,
                               lat_bounds |-> lat_bounds, lon_bounds |-> lon_bounds]
    /\ time_filtered = <<>>
    /\ space_filtered = <<>>
    /\ params_verdict = <<>>
    /\ analyzed_df = <<>>
    /\ tack_labels = <<>>
    /\ best_df = <<>>
    /\ wind_score = 0
    /\ user_wind_direction = 0
    /\ candidate_scores = <<>>
    /\ guided_estimate = <<>>
    /\ TrackIdle
    /\ DetectorIdle
    /\ SolverIdle

FilterSegmentsByTime ==
    /\ pc = "by_time"
    /\ time_filtered' = filter_segments_by_time(filter_args.segments,
                             filter_args.time_start, filter_args.time_end)
    /\ pc' = "time_filtered"
    /\ UNCHANGED <<solver_vars, detector_vars, track_vars, analyzed_df, tack_labels, best_df,
                   score_vars, filter_args, space_filtered, params_verdict>>

FilterSegmentsBySpatialBounds ==
    /\ pc = "by_space"
    /\ space_filtered' = filter_segments_by_spatial_bounds(filter_args.segments,
                              filter_args.track_data, filter_args.lat_bounds,
                              filter_args.lon_bounds)
    /\ pc' = "space_filtered"
    /\ UNCHANGED <<solver_vars, detector_vars, track_vars, analyzed_df, tack_labels, best_df,
                   score_vars, filter_args, time_filtered, params_verdict>>

ValidateFilterParams ==
    /\ pc = "check_params"
    /\ params_verdict' = validate_filter_params(filter_args.time_start,
                              filter_args.time_end, filter_args.lat_bounds,
                              filter_args.lon_bounds)
    /\ pc' = "params_checked"
    /\ UNCHANGED <<solver_vars, detector_vars, track_vars, analyzed_df, tack_labels, best_df,
                   score_vars, filter_args, time_filtered, space_filtered>>

NextFilter ==
    FilterSegmentsByTime \/ FilterSegmentsBySpatialBounds \/ ValidateFilterParams

SpecFilter == InitFilter /\ [][NextFilter]_vars

(***************************************************************************)
(* analyze_track_data (backend/services/track_analysis_service.py): the    *)
(* detector with its input validation (backend/core/validation.py), the    *)
(* speed, time and spatial filters, then the solver on what is left.       *)
(***************************************************************************)
\* the ValidationError validate_gpx_dataframe raises, or None
validate_gpx_dataframe(points) ==
    IF Len(points) = 0 THEN Some("DataFrame is empty")
    ELSE IF ~("latitude" \in DOMAIN points[1] /\ "longitude" \in DOMAIN points[1])
    THEN Some("Missing required columns")
    ELSE IF \E k \in 1..Len(points) :
                ~(0 - 90 <= points[k].latitude /\ points[k].latitude <= 90)
    THEN Some("invalid latitude values (must be -90 to 90)")
    ELSE IF \E k \in 1..Len(points) :
                ~(0 - 180 <= points[k].longitude /\ points[k].longitude <= 180)
    THEN Some("invalid longitude values (must be -180 to 180)")
    ELSE IF Len(points) < 2 THEN Some("Need at least 2 data points for analysis")
    ELSE None

\* the ValidationError validate_parameter_ranges raises for the three
\* parameters the detector passes, or None
validate_parameter_ranges(tolerance, min_distance, min_duration) ==
    IF ~(0 < tolerance /\ tolerance <= 180 * Deg)
    THEN Some("Angle tolerance must be 0-180")
    ELSE IF ~(0 <= min_distance /\ min_distance <= 10000)
    THEN Some("Min distance must be 0-10000m")
    ELSE IF ~(0 <= min_duration /\ min_duration <= 3600)
    THEN Some("Min duration must be 0-3600s")
    ELSE None

\* the whole of find_consistent_angle_stretches: a ValidationError raised by
\* either validation is caught and logged and an empty frame is returned;
\* otherwise the five steps run and every empty intermediate result returns
\* an empty frame
find_consistent_angle_stretches(points, track_legs, tolerance, min_duration, min_distance) ==
    LET gpx_error == validate_gpx_dataframe(points)
        caught == IF gpx_error # None THEN gpx_error
                  ELSE validate_parameter_ranges(tolerance, min_distance, min_duration)
        rows == calculate_point_metrics(points, track_legs)
        found == detect_angle_changes(rows, tolerance)
        built == build_segments(rows, found)
        valid == filter_valid_segments(built, min_distance, min_duration)
    IN  IF caught # None
        THEN [caught |-> caught, df_with_metrics |-> <<>>, stretches |-> <<>>,
              segments |-> <<>>, valid_segments |-> <<>>, returned |-> <<>>]
        ELSE [caught |-> None, df_with_metrics |-> rows, stretches |-> found,
              segments |-> built, valid_segments |-> valid,
              returned |-> validate_and_clean_segments(valid)]

\* segments[segments['avg_speed_knots'] >= min_speed]
filter_by_speed(segs, min_speed) ==
    LET FastEnough(segment) == segment.avg_speed_knots >= min_speed
    IN  SelectSeq(segs, FastEnough)

\* steps 3 and 3.5 of analyze_track_data: the speed filter, then the time and
\* spatial filters when one is given and a segment is left
filtered_segments(segs, track_data, filters) ==
    LET fast == IF Len(segs) # 0 THEN filter_by_speed(segs, filters.min_speed) ELSE segs
    IN  IF /\ Len(fast) # 0
           /\ \/ filters.time_start # None \/ filters.time_end # None
              \/ filters.lat_bounds # None \/ filters.lon_bounds # None
        THEN apply_filters(fast, track_data, filters.time_start, filters.time_end,
                           filters.lat_bounds, filters.lon_bounds)
        ELSE fast

\* the TrackAnalysisResult returned when no segment is left
empty_analysis(wind) ==
    [segments |-> <<>>, initial_wind |-> wind, refined_wind |-> wind,
     wind_confidence |-> "None"]

\* the TrackAnalysisResult returned after the wind was estimated
full_analysis(segs, wind, estimate) ==
    [segments |-> analyze_wind_angles(segs, estimate.direction),
     initial_wind |-> wind, refined_wind |-> estimate.direction,
     wind_confidence |-> estimate.confidence]

\* step 2: the call of find_consistent_angle_stretches
DetectSegments ==
    /\ pc = "track_detect"
    /\ LET detection == find_consistent_angle_stretches(df, legs, angle_tolerance,
                            min_duration_seconds, min_distance_meters)
       IN  /\ validation_error' = detection.caught
           /\ df_with_metrics' = detection.df_with_metrics
           /\ stretches' = detection.stretches
           /\ built_segments' = detection.segments
           /\ valid_segments' = detection.valid_segments
           /\ cleaned_df' = detection.returned
    /\ pc' = "track_filter"
    /\ UNCHANGED <<solver_vars, detector_args, min_distance_meters, min_duration_seconds,
                   analyzed_df, tack_labels, best_df, score_vars, filtering_vars,
                   track_args, track_result>>

\* steps 3 and 3.5 and the branch on what is left: the empty result is
\* returned, or the solver is called with the parameters of step 4
FilterSegments ==
    /\ pc = "track_filter"
    /\ LET left == filtered_segments(cleaned_df, df, track_args)
       IN  IF Len(left) = 0
           THEN /\ track_result' = Some(empty_analysis(initial_wind))
                /\ pc' = "returned"
                /\ UNCHANGED <<segments, min_segment_distance>>
           ELSE /\ segments' = left
                /\ min_segment_distance' = min_distance_meters
                /\ pc' = "start"
                /\ UNCHANGED track_result
    /\ UNCHANGED <<initial_wind, suspicious_angle_threshold, max_iterations,
                   best_attempts_fraction, locals, result, detector_vars,
                   analyzed_df, tack_labels, best_df, score_vars, filtering_vars,
                   track_args, validation_error>>

\* steps 5 and 6 and the return, once the solver has returned
ReturnAnalysis ==
    /\ pc = "done"
    /\ track_result' = Some(full_analysis(segments, initial_wind, result[1]))
    /\ pc' = "returned"
    /\ UNCHANGED <<solver_vars, detector_vars, analyzed_df, tack_labels, best_df,
                   score_vars, filtering_vars, track_args, validation_error>>

NextTrack ==
    DetectSegments \/ FilterSegments \/ Validate \/ Iterate \/ Finalize \/ ReturnAnalysis

MaxTrackPoints == 7

\* a track of n points, point k (0-based) recorded at k * k seconds at latitude
\* k and longitude 10 k; bad is the number of the point with a latitude out of
\* range, 0 for none
track_data_of(n, bad) ==
    [k \in 1..n |->
        [time |-> Some((k - 1) * (k - 1)),
         latitude |-> IF k = bad THEN 91 ELSE k - 1,
         longitude |-> 10 * (k - 1)]]

\* the courses sailed: tacking every second leg, one heading throughout, and a
\* heading that changes with every leg
CourseInputs == {"tacking", "steady", "weaving"}

course_bearing(course, k) ==
    IF course = "tacking"
    THEN (IF ((k - 1) \div 2) % 2 = 0 THEN 40 * Deg ELSE 320 * Deg)
    ELSE IF course = "steady" THEN 40 * Deg
    ELSE (IF k % 2 = 1 THEN 0 ELSE 40 * Deg)

\* the legs of a track of n points, 30 m each
course_legs(course, n) ==
    [k \in 1..(IF n = 0 THEN 0 ELSE n - 1) |->
        [bearing |-> course_bearing(course, k), distance |-> 30]]

\* angle tolerances within and outside (0, 180]
TrackToleranceInputs == {0, 10 * Deg, 25 * Deg, 181 * Deg}

\* <<min_distance, min_duration>> within and outside their ranges
TrackThresholdInputs == {<<0, 0>>, <<50, 5>>, <<10001, 0>>, <<0, 3601>>, <<0 - 1, 0>>}

\* minimum speeds in knots
MinSpeedInputs == {0, 8 * KnotUnits, 150 * KnotUnits}

\* <<time_start, time_end, lat_bounds, lon_bounds>>
TrackFilterInputs ==
    {<<None, None, None, None>>, <<Some(5), None, None, None>>,
     <<Some(1000), None, None, None>>, <<None, None, <<50, 60>>, None>>}

TrackWindInputs == {0, 90 * Deg}

InitTrack ==
    /\ \E n \in 0..MaxTrackPoints, bad \in 0..1, course \in CourseInputs :
          /\ df = track_data_of(n, bad)
          /\ legs = course_legs(course, n)
    /\ angle_tolerance \in TrackToleranceInputs
    /\ \E thresholds \in TrackThresholdInputs :
          /\ min_distance_meters = thresholds[1]
          /\ min_duration_seconds = thresholds[2]
    /\ \E min_speed \in MinSpeedInputs, filters \in TrackFilterInputs :
          track_args = [min_speed |-> min_speed,
                        time_start |-> filters[1], time_end |-> filters[2],
                        lat_bounds |-> filters[3], lon_bounds |-> filters[4]]
    /\ initial_wind \in TrackWindInputs
    /\ df_with_metrics = <<>>
    /\ stretches = <<>>
    /\ built_segments = <<>>
    /\ valid_segments = <<>>
    /\ cleaned_df = <<>>
    /\ validation_error = None
    /\ track_result = None
    /\ segments = <<>>
    /\ suspicious_angle_threshold = DEFAULT_SUSPICIOUS_ANGLE_THRESHOLD
    /\ min_segment_distance = DEFAULT_MIN_SEGMENT_DISTANCE_METERS
    /\ max_iterations = DEFAULT_MAX_ITERATIONS
    /\ best_attempts_fraction = DEFAULT_BEST_ATTEMPTS_PERCENT
    /\ iteration = 0
    /\ current_wind = 0
    /\ previous_wind = None
    /\ iteration_history = <<>>
    /\ outcome = "INIT"
    /\ result = None
    /\ analyzed_df = <<>>
    /\ tack_labels = <<>>
    /\ best_df = <<>>
    /\ wind_score = 0
    /\ user_wind_direction = 0
    /\ candidate_scores = <<>>
    /\ guided_estimate = <<>>
    /\ FilteringIdle
    /\ pc = "track_detect"

SpecTrack == InitTrack /\ [][NextTrack]_vars

(***************************************************************************)
(* State functions the properties of the solver are stated with.           *)
(***************************************************************************)
\* the qualifying upwind segments under hypothesis w
Qualifying(w) ==
    upwind_of(segments, w, suspicious_angle_threshold, min_segment_distance)

\* the median angle of the best-pointing subset of the rows of one tack
BestMedian(tack_rows) ==
    median_angle(get_best_pointing_segments(tack_rows, BEST_POINTING_MIN_COUNT,
                                            best_attempts_fraction))

\* an iteration under hypothesis w is aborted
Aborted(w) ==
    \/ Len(Qualifying(w)) < 3
    \/ Len(SelectSeq(Qualifying(w), IsPort)) = 0
    \/ Len(SelectSeq(Qualifying(w), IsStarboard)) = 0

\* new_w = (w - (starboard_median - port_median) / 2) mod 360
NewW(w) ==
    (w - (BestMedian(SelectSeq(Qualifying(w), IsStarboard))
             - BestMedian(SelectSeq(Qualifying(w), IsPort))) \div 2) % FullCircle

\* the hypothesis that preceded the current one
TwoPrior ==
    IF Len(iteration_history) >= 2
    THEN iteration_history[Len(iteration_history) - 1].wind
    ELSE initial_wind

Returned == result[1]

\* every halving of the run was exact: the hypotheses keep spare low bits
ExactHalves == current_wind % 4 = 0

(***************************************************************************)
(* C1. An iteration that is not aborted and whose new hypothesis new_w is  *)
(* less than 1.0 degree from the current hypothesis w ends the loop in     *)
(* that iteration as CONVERGED, and the direction returned is new_w.       *)
(***************************************************************************)
C1_ConvergedStopsAndKeepsNewWind ==
    [][/\ (pc = "loop" /\ ~Aborted(current_wind)
              /\ Abs(NewW(current_wind) - current_wind) < Deg)
          => /\ pc' = "final"
             /\ outcome' = "CONVERGED"
             /\ current_wind' = NewW(current_wind)
             /\ Len(iteration_history') = Len(iteration_history) + 1
       /\ (pc = "final" /\ outcome = "CONVERGED")
          => /\ pc' = "done"
             /\ Returned'.direction = current_wind
             /\ iteration_history' = iteration_history]_vars

C1_Witness ==
    /\ pc = "done"
    /\ outcome = "CONVERGED"
    /\ Len(iteration_history) = 2
    /\ max_iterations = 3
    /\ Returned.direction = iteration_history[2].wind
    /\ Returned.direction # iteration_history[1].wind

(***************************************************************************)
(* C2. An iteration that is not CONVERGED and whose new hypothesis is      *)
(* within 1.0 degree of the hypothesis two iterations prior ends the loop  *)
(* as OSCILLATING whatever budget remains, and the direction returned is   *)
(* the average (w + new_w) / 2 of the last two hypotheses.                 *)
(***************************************************************************)
C2_OscillationStopsWithAverage ==
    [][/\ (pc = "loop" /\ ~Aborted(current_wind)
              /\ Len(iteration_history) >= 1
              /\ ~(Abs(NewW(current_wind) - current_wind) < Deg)
              /\ Abs(NewW(current_wind) - TwoPrior) < Deg)
          => /\ pc' = "final"
             /\ outcome' = "OSCILLATING"
             /\ 2 * current_wind' = current_wind + NewW(current_wind)
             /\ Len(iteration_history') = Len(iteration_history) + 1
       /\ (pc = "final" /\ outcome = "OSCILLATING")
          => /\ pc' = "done"
             /\ Returned'.direction = current_wind
             /\ iteration_history' = iteration_history]_vars

C2_Witness ==
    /\ pc = "done"
    /\ outcome = "OSCILLATING"
    /\ Len(iteration_history) = 2
    /\ max_iterations = 3
    /\ 2 * Returned.direction = iteration_history[1].wind + iteration_history[2].wind

(***************************************************************************)
(* C3. The solver runs at most max_iterations iterations and, run to       *)
(* completion, always returns.  When no iteration converges, oscillates or *)
(* aborts, the direction returned is the hypothesis computed in iteration  *)
(* number max_iterations.                                                  *)
(***************************************************************************)
C3_BoundedIterations ==
    /\ [](/\ Len(iteration_history) <= max_iterations
          /\ iteration < max_iterations
          /\ outcome = "MAX_ITER_REACHED"
                => /\ Len(iteration_history) = max_iterations
                   /\ current_wind = iteration_history[max_iterations].wind
                   /\ pc = "done" =>
                         Returned.direction = iteration_history[max_iterations].wind)
    /\ <>(pc = "done")

\* the cap ends a run of several iterations whose last two hypotheses differ
C3_Witness ==
    /\ pc = "done"
    /\ outcome = "MAX_ITER_REACHED"
    /\ max_iterations >= 2
    /\ Len(iteration_history) = max_iterations
    /\ Returned.direction = iteration_history[max_iterations].wind
    /\ Returned.direction # iteration_history[max_iterations - 1].wind

(***************************************************************************)
(* C4. When the first iteration is aborted (fewer than 3 qualifying        *)
(* upwind segments, or a tack without any), the estimate returned has the  *)
(* initial hypothesis as direction, confidence low, no port or starboard   *)
(* angle and both counts 0.                                                *)
(***************************************************************************)
C4_FirstIterationAbortReturnsInitial ==
    (pc = "done" /\ Len(segments) > 0 /\ Aborted(initial_wind))
        => /\ Returned.direction = initial_wind
           /\ Returned.confidence = "low"
           /\ Returned.port_angle = None
           /\ Returned.starboard_angle = None
           /\ Returned.port_count = 0
           /\ Returned.starboard_count = 0

\* three qualifying upwind segments, all of them on one tack
C4_Witness ==
    /\ pc = "done"
    /\ Len(Qualifying(initial_wind)) >= 3
    /\ Len(SelectSeq(Qualifying(initial_wind), IsStarboard)) = 0
    /\ Returned.direction = initial_wind
    /\ Returned.confidence = "low"
    /\ Returned.starboard_angle = None

(***************************************************************************)
(* C5. On synthetic symmetric data (at least 3 segments per tack at true   *)
(* wind w + 45 and w - 45 degrees, none short, none flagged) the solver    *)
(* run with max_iterations = 5 from an initial hypothesis whose circular   *)
(* distance to w is below 45 degrees returns a direction within 2 degrees  *)
(* of w with confidence medium or high.                                    *)
(***************************************************************************)
\* the true wind of a symmetric segment set, whose first segment is at w + 45
TrueWind == (segments[1].bearing - 45 * Deg) % FullCircle

\* the circular distance of the initial hypothesis to the true wind
HypothesisError == angle_to_wind(initial_wind, TrueWind)

OnTrueWind ==
    /\ angle_to_wind(Returned.direction, TrueWind) <= 2 * Deg
    /\ Returned.confidence \in {"medium", "high"}

C5_SymmetricWithin45 ==
    (pc = "done" /\ HypothesisError < 45 * Deg) => OnTrueWind

\* from 44.75 degrees off, the solver moved to the true wind
C5_Witness ==
    /\ pc = "done"
    /\ HypothesisError = Quarter(179)
    /\ Returned.direction = TrueWind
    /\ Returned.confidence = "high"
    /\ Len(iteration_history) = 2

\* the statement with the bound of 90 degrees the specification gives
C5_SymmetricWithin90 ==
    (pc = "done" /\ HypothesisError < 90 * Deg) => OnTrueWind

(***************************************************************************)
(* C6. Every estimate returned has its direction in [0, 360), whatever the *)
(* initial hypothesis and the exit path.                                   *)
(***************************************************************************)
C6_DirectionInRange ==
    pc = "done" => (0 <= Returned.direction /\ Returned.direction < FullCircle)

(***************************************************************************)
(* C7. After the final analysis the confidence is high iff both angles are *)
(* defined, they differ by less than 20 degrees, each tack has at least 3  *)
(* best-pointing segments and the qualifying upwind segments total more    *)
(* than 500 m; otherwise medium iff both angles are defined and differ by  *)
(* less than 30 degrees; otherwise low.                                    *)
(***************************************************************************)
\* the estimate comes from the final analysis, not from an early return
Finalized == pc = "done" /\ ~Returned.user_provided

BothAngles == Returned.port_angle # None /\ Returned.starboard_angle # None

AngleDifference == Abs(Returned.port_angle[1] - Returned.starboard_angle[1])

HighConfidence ==
    /\ BothAngles
    /\ AngleDifference < 20 * Deg
    /\ Returned.port_count >= 3
    /\ Returned.starboard_count >= 3
    /\ SumDistance(Qualifying(Returned.direction)) > 500

MediumConfidence ==
    /\ ~HighConfidence
    /\ BothAngles
    /\ AngleDifference < 30 * Deg

C7_ConfidenceTiers ==
    Finalized =>
        /\ Returned.confidence = "high" <=> HighConfidence
        /\ Returned.confidence = "medium" <=> MediumConfidence
        /\ Returned.confidence = "low" <=> (~HighConfidence /\ ~MediumConfidence)

\* balanced angles over more than 500 m, yet a tack with fewer than 3 segments
C7_Witness ==
    /\ Finalized
    /\ BothAngles
    /\ AngleDifference < 20 * Deg
    /\ SumDistance(Qualifying(Returned.direction)) > 500
    /\ Returned.port_count < 3
    /\ Returned.confidence = "medium"

(***************************************************************************)
(* C9. Every point of a built segment, from start_idx to end_idx, has a    *)
(* bearing whose circular distance min(d, 360 - d) to the segment's        *)
(* bearing is at most the angle tolerance.                                 *)
(***************************************************************************)
CircularDistance(a, b) ==
    LET d == Abs((a % FullCircle) - (b % FullCircle))
    IN  IF d <= FullCircle - d THEN d ELSE FullCircle - d

\* the bearing of the point at the 0-based index i
PointBearing(i) == df_with_metrics[i + 1].bearing

Built == pc = "done" /\ Len(df) > 0

C10_DisjointOrderedRanges ==
    /\ pc \in {"build", "done"} =>
          /\ \A k \in 1..Len(stretches) :
                 /\ 0 <= stretches[k][1]
                 /\ stretches[k][1] <= stretches[k][2]
                 /\ stretches[k][2] <= Len(df) - 1
          /\ \A k \in 1..(Len(stretches) - 1) : stretches[k][2] < stretches[k + 1][1]
    /\ Built =>
          /\ \A k \in 1..Len(built_segments) :
                 /\ built_segments[k].start_idx < built_segments[k].end_idx
                 /\ built_segments[k].point_count
                        = built_segments[k].end_idx - built_segments[k].start_idx + 1
                 /\ built_segments[k].point_count >= 2
          /\ \A k \in 1..(Len(built_segments) - 1) :
                 /\ built_segments[k].start_idx <= built_segments[k + 1].start_idx
                 /\ built_segments[k].end_idx < built_segments[k + 1].start_idx

\* two segments built, and a one-point range between them dropped
C10_Witness ==
    /\ Built
    /\ Len(built_segments) = 2
    /\ Len(stretches) = 3
    /\ stretches[2][1] = stretches[2][2]
    /\ built_segments[2].start_idx = built_segments[1].end_idx + 2

(***************************************************************************)
(* C11. For a bearing sequence of n >= 2 points the last range returned by *)
(* detect_angle_changes ends at index n - 1: the final range is emitted    *)
(* however short, also when it begins at the last point.                   *)
(***************************************************************************)
C11_LastRangeEndsAtLastPoint ==
    (pc = "build" /\ Len(df_with_metrics) >= 2)
        => /\ Len(stretches) >= 1
           /\ stretches[Len(stretches)][2] = Len(df_with_metrics) - 1

(***************************************************************************)
(* C12. The distance of a segment over the index range [s, e] is the path  *)
(* length from point s to point e: the sum of the distances of exactly the *)
(* e - s transitions s -> s + 1, ..., e - 1 -> e.                          *)
(***************************************************************************)
\* the length of the path from point s to point e (0-based); legs[k] joins the
\* points k - 1 and k
PathLength(s, e) ==
    LET sum[k \in s..e] == IF k = s THEN 0 ELSE sum[k - 1] + legs[k].distance
    IN  sum[e]

C12_DistanceIsPathLength ==
    Built =>
        \A k \in 1..Len(built_segments) :
            built_segments[k].distance
                = PathLength(built_segments[k].start_idx, built_segments[k].end_idx)

(***************************************************************************)
(* C13. The duration of a segment over [s, e] is timestamp[e] -            *)
(* timestamp[s] when both timestamps are present, and otherwise the sum of *)
(* the per-step durations of the points of the range.  Its average speed   *)
(* is distance / duration in knots when the duration is positive, and 0    *)
(* when the duration is 0.                                                 *)
(***************************************************************************)
\* the point at the 0-based index i has a timestamp
Present(i) == Len(df[i + 1].time) = 1

Timestamp(i) == df[i + 1].time[1]

\* the per-step durations of the points s..e, summed
StepDurations(s, e) == sum_duration_sec(SubSeq(df_with_metrics, s + 1, e + 1))

C13_DurationAndSpeed ==
    Built =>
        \A k \in 1..Len(built_segments) :
            LET seg == built_segments[k]
            IN  /\ seg.duration =
                      IF Present(seg.start_idx) /\ Present(seg.end_idx)
                      THEN Timestamp(seg.end_idx) - Timestamp(seg.start_idx)
                      ELSE StepDurations(seg.start_idx, seg.end_idx)
                /\ seg.duration > 0 =>
                      seg.avg_speed_knots
                          = (seg.distance * METERS_PER_SECOND_TO_KNOTS) \div seg.duration
                /\ seg.duration = 0 => seg.avg_speed_knots = 0

(***************************************************************************)
(* C14. With timestamps fully or partially absent, a step whose timestamp  *)
(* is missing contributes duration 0, a segment without any timestamp has  *)
(* duration 0 and average speed 0, and no duration or speed is negative or *)
(* undefined.                                                              *)
(***************************************************************************)
C14_MissingTimesDegradeToZero ==
    (Built /\ Len(df) >= 2) =>
        /\ \A i \in 0..(Len(df) - 1) :
              /\ ~IsNaN(df_with_metrics[i + 1].duration_sec)
              /\ df_with_metrics[i + 1].duration_sec >= 0
              /\ (i < Len(df) - 1 /\ ~Present(i)) => df_with_metrics[i + 1].duration_sec = 0
        /\ \A k \in 1..Len(built_segments) :
              /\ ~IsNaN(built_segments[k].duration)
              /\ built_segments[k].duration >= 0
              /\ built_segments[k].avg_speed_knots >= 0
              /\ (\A i \in 0..(Len(df) - 1) : ~Present(i))
                    => /\ built_segments[k].duration = 0
                       /\ built_segments[k].avg_speed_knots = 0

(***************************************************************************)
(* C15. For every index i < n - 1 whose two timestamps are present, the    *)
(* duration attached to index i is timestamp[i + 1] - timestamp[i]: the    *)
(* time of the transition whose bearing and distance index i carries.      *)
(***************************************************************************)
C15_DurationOfOwnTransition ==
    (pc \in {"detect", "build", "done"} /\ Len(df) >= 2) =>
        \A i \in 0..(Len(df) - 2) :
            (Present(i) /\ Present(i + 1))
                => df_with_metrics[i + 1].duration_sec = Timestamp(i + 1) - Timestamp(i)

(***************************************************************************)
(* C16. filter_valid_segments returns exactly the segments of its input    *)
(* with distance >= min_distance_meters and duration >=                    *)
(* min_duration_seconds, in their original order; hence every segment that *)
(* find_consistent_angle_stretches returns meets both thresholds.          *)
(***************************************************************************)
MeetsThresholds(segment) ==
    /\ segment.distance >= min_distance_meters
    /\ segment.duration >= min_duration_seconds

\* the places in built_segments of the segments that meet both thresholds
MeetingPlaces == {k \in 1..Len(built_segments) : MeetsThresholds(built_segments[k])}

\* the j-th smallest of the places
PlaceOf(j) ==
    CHOOSE k \in MeetingPlaces : Cardinality({m \in MeetingPlaces : m <= k}) = j

Filtered == pc = "done" /\ Len(df) > 0

C16_FilterKeepsExactlyTheValid ==
    Filtered =>
        /\ Len(valid_segments) = Cardinality(MeetingPlaces)
        /\ \A j \in 1..Len(valid_segments) : valid_segments[j] = built_segments[PlaceOf(j)]
        /\ \A j \in 1..Len(cleaned_df) :
              /\ MeetsThresholds(cleaned_df[j])
              /\ \E k \in 1..Len(valid_segments) : cleaned_df[j] = valid_segments[k]

\* of two segments long enough, the filter kept the second and dropped the
\* first, which was too brief
C16_Witness ==
    /\ Filtered
    /\ Len(built_segments) = 2
    /\ min_distance_meters > 0
    /\ min_duration_seconds > 0
    /\ built_segments[1].distance >= min_distance_meters
    /\ built_segments[1].duration >= 0
    /\ built_segments[1].duration < min_duration_seconds
    /\ valid_segments = <<built_segments[2]>>
    /\ cleaned_df = valid_segments

(***************************************************************************)
(* Properties of the classification functions.                             *)
(***************************************************************************)
Classified == pc \in {"pick", "picked"}

\* a value reduced to one turn
Reduced(x) == x % FullCircle

\* the gap between the reduced bearing of row i and the reduced wind
ReducedGap(i) == Abs(Reduced(segments[i].bearing) - Reduced(initial_wind))

\* C17: the angle to the wind of every analysed row is the smaller of the gap
\* between the reduced bearing and the reduced wind and 360 degrees minus that
\* gap, it lies between 0 and 180 degrees, and the row is Upwind exactly when
\* that angle is below 90 degrees.
C17_AngleAndDirection ==
    Classified =>
        /\ Len(analyzed_df) = Len(segments)
        /\ \A i \in 1..Len(segments) :
              /\ \/ /\ ReducedGap(i) <= FullCircle - ReducedGap(i)
                    /\ analyzed_df[i].angle_to_wind = ReducedGap(i)
                 \/ /\ ReducedGap(i) > FullCircle - ReducedGap(i)
                    /\ analyzed_df[i].angle_to_wind = FullCircle - ReducedGap(i)
              /\ analyzed_df[i].angle_to_wind >= 0
              /\ analyzed_df[i].angle_to_wind <= 180 * Deg
              /\ (analyzed_df[i].direction = "Upwind")
                    <=> (analyzed_df[i].angle_to_wind < 90 * Deg)
              /\ analyzed_df[i].direction \in {"Upwind", "Downwind"}

\* a wind value outside one turn, a row at exactly 90 degrees to it that is
\* Downwind and a row just below 90 degrees that is Upwind
C17_Witness ==
    /\ Classified
    /\ initial_wind = 360 * Deg
    /\ \E i, j \in 1..Len(segments) :
          /\ analyzed_df[i].angle_to_wind = 90 * Deg
          /\ analyzed_df[i].direction = "Downwind"
          /\ analyzed_df[j].angle_to_wind = 90 * Deg - Deg \div 4
          /\ analyzed_df[j].direction = "Upwind"

\* the classification of the rows under another wind value
ClassifiedUnder(w) ==
    [i \in 1..Len(segments) |->
        [angle_to_wind |-> analyze_wind_angles(segments, w)[i].angle_to_wind,
         direction |-> analyze_wind_angles(segments, w)[i].direction,
         tack |-> analyze_wind_angles(segments, w)[i].tack]]

\* the classification the analysis gave
ClassificationGiven ==
    [i \in 1..Len(analyzed_df) |->
        [angle_to_wind |-> analyzed_df[i].angle_to_wind,
         direction |-> analyzed_df[i].direction,
         tack |-> analyzed_df[i].tack]]

\* C18: the analysis under a wind value w gives every row the angle to the
\* wind, the direction and the tack that the analysis under w reduced to one
\* turn gives it.
C18_Periodic ==
    Classified => ClassificationGiven = ClassifiedUnder(Reduced(initial_wind))

\* a wind value of 450 degrees, and rows on both tacks classified as under 90
C18_Witness ==
    /\ Classified
    /\ initial_wind = 450 * Deg
    /\ ClassificationGiven = ClassifiedUnder(90 * Deg)
    /\ \E i, j \in 1..Len(analyzed_df) :
          /\ analyzed_df[i].tack = "Port"
          /\ analyzed_df[j].tack = "Starboard"
          /\ analyzed_df[i].angle_to_wind > 0

\* how far round the compass the bearing of row i lies from the wind
BearingPastWind(i) == (segments[i].bearing - initial_wind) % FullCircle

\* C19: a row is on the Port tack exactly when its bearing lies at most 180
\* degrees past the wind, reckoned on one turn, and on Starboard otherwise;
\* determine_tack gives every row the tack the analysis gives it.
C19_TackRule ==
    Classified =>
        /\ Len(tack_labels) = Len(segments)
        /\ \A i \in 1..Len(segments) :
              /\ (analyzed_df[i].tack = "Port") <=> (BearingPastWind(i) <= 180 * Deg)
              /\ (analyzed_df[i].tack = "Starboard") <=> (BearingPastWind(i) > 180 * Deg)
              /\ tack_labels[i] = analyzed_df[i].tack

\* a row heading straight into the wind and a row exactly 180 degrees past it,
\* both Port by both functions
C19_Witness ==
    /\ Classified
    /\ \E i, j \in 1..Len(segments) :
          /\ BearingPastWind(i) = 0
          /\ BearingPastWind(j) = 180 * Deg
          /\ analyzed_df[i].tack = "Port" /\ tack_labels[i] = "Port"
          /\ analyzed_df[j].tack = "Port" /\ tack_labels[j] = "Port"

Picked == pc = "picked"

\* how many times the row r occurs among the rows of s at the places in K
Occurrences(s, K, r) == Cardinality({i \in K : s[i] = r})

\* the rows returned are the rows of the subset at the places in K
ReturnedFrom(K) ==
    /\ Len(best_df) = Cardinality(K)
    /\ \A i \in 1..Len(analyzed_df) :
          Occurrences(best_df, 1..Len(best_df), analyzed_df[i])
              = Occurrences(analyzed_df, K, analyzed_df[i])
    /\ \A k \in 1..Len(best_df) : \E i \in K : best_df[k] = analyzed_df[i]

\* the number of rows the contract promises for a subset of n > 3 rows
PromisedCount(n) ==
    IF (n * best_attempts_fraction) \div 100 > 3
    THEN (n * best_attempts_fraction) \div 100 ELSE 3

\* C20: from a subset of at most 3 rows every row is returned; from a larger
\* one exactly max(3, floor(n * max_fraction)) of its rows are returned, and
\* no returned row has a larger angle to the wind than a row left out.
C20_BestPointingSubset ==
    Picked =>
        IF Len(analyzed_df) <= 3
        THEN best_df = analyzed_df
        ELSE \E K \in SUBSET (1..Len(analyzed_df)) :
                /\ Cardinality(K) = PromisedCount(Len(analyzed_df))
                /\ ReturnedFrom(K)
                /\ \A i \in K : \A j \in (1..Len(analyzed_df)) \ K :
                      analyzed_df[i].angle_to_wind <= analyzed_df[j].angle_to_wind

\* five rows of which four are returned, a row left out, and rows not in
\* order of their angles
C20_Witness ==
    /\ Picked
    /\ Len(analyzed_df) = 5
    /\ Len(best_df) = 4
    /\ analyzed_df[1].angle_to_wind > analyzed_df[2].angle_to_wind
    /\ analyzed_df[5].angle_to_wind < analyzed_df[1].angle_to_wind
    /\ \A k \in 1..4 : best_df[k].angle_to_wind < analyzed_df[1].angle_to_wind

(***************************************************************************)
(* Further properties of the solver.                                       *)
(***************************************************************************)
\* the hypothesis the last completed iteration produced
LastHypothesis == iteration_history[Len(iteration_history)].wind

\* C28: when the abort condition arises in an iteration after the first, that
\* step records no new hypothesis and leaves the current one alone, the
\* solver goes on to the final analysis, and the direction the final
\* analysis returns is the hypothesis the previous iteration produced.
C28_LaterAbortKeepsPrevious ==
    [][/\ (pc = "loop" /\ iteration > 0 /\ Aborted(current_wind)) =>
            /\ pc' = "final"
            /\ outcome' = "INSUFFICIENT_DATA"
            /\ iteration_history' = iteration_history
            /\ Len(iteration_history) = iteration
            /\ current_wind' = LastHypothesis
       /\ (pc = "final" /\ outcome = "INSUFFICIENT_DATA") =>
            /\ pc' = "done"
            /\ result' # None
            /\ result'[1].direction = LastHypothesis
            /\ ~result'[1].user_provided]_vars

\* a run aborted after its first iteration that returned the hypothesis of
\* the iteration before, different from the initial one
C28_Witness ==
    /\ pc = "done"
    /\ outcome = "INSUFFICIENT_DATA"
    /\ iteration > 0
    /\ Returned.direction = LastHypothesis
    /\ Returned.direction # initial_wind % FullCircle

\* the qualifying upwind segments of one tack under the direction returned
FinalTack(tack) ==
    LET OnTack(r) == r.tack = tack
    IN  SelectSeq(final_upwind_of(segments, Returned.direction,
                                  suspicious_angle_threshold, min_segment_distance),
                  OnTack)

\* the size of the best-pointing subset of n segments of one tack
BestSize(n) ==
    IF n <= 3 THEN n
    ELSE IF (n * best_attempts_fraction) \div 100 > 3
         THEN (n * best_attempts_fraction) \div 100
         ELSE 3

\* C29: in every estimate of the final analysis each tack's count is the size
\* of the best-pointing subset of that tack under the returned direction and
\* its angle is the median of that subset; a count is 0 exactly when the
\* angle is absent, and high confidence comes only with both counts at
\* least 3.
C29_BestPointingCounts ==
    Finalized =>
        /\ Returned.port_count = BestSize(Len(FinalTack("Port")))
        /\ Returned.starboard_count = BestSize(Len(FinalTack("Starboard")))
        /\ (Returned.port_count = 0) <=> (Returned.port_angle = None)
        /\ (Returned.starboard_count = 0) <=> (Returned.starboard_angle = None)
        /\ Returned.port_angle # None =>
               Returned.port_angle[1] = BestMedian(FinalTack("Port"))
        /\ Returned.starboard_angle # None =>
               Returned.starboard_angle[1] = BestMedian(FinalTack("Starboard"))
        /\ Returned.confidence = "high" =>
               Returned.port_count >= 3 /\ Returned.starboard_count >= 3

\* an estimate whose port count is smaller than the number of upwind port
\* segments, and another tack without any segment
C29_Witness ==
    /\ Finalized
    /\ Returned.port_count = 3
    /\ Len(FinalTack("Port")) = 4
    /\ Returned.starboard_count > 0
    /\ Returned.starboard_angle # None

\* C30: whenever the solver stops as OSCILLATING, the direction it keeps lies
\* on the shorter arc between the hypothesis w the iteration started from and
\* the hypothesis new_w it produced: twice its circular distance to either
\* is at most their circular distance.
C30_OscillationOnShorterArc ==
    [][(pc = "loop" /\ outcome' = "OSCILLATING") =>
          /\ 2 * CircularDistance(current_wind', current_wind)
                <= CircularDistance(current_wind, NewW(current_wind))
          /\ 2 * CircularDistance(current_wind', NewW(current_wind))
                <= CircularDistance(current_wind, NewW(current_wind))]_vars

(***************************************************************************)
(* Properties of the quality score and of the user-guided search.          *)
(***************************************************************************)
Scored == pc = "scored"

UpwindRows == SelectSeq(analyzed_df, IsUpwind)

\* min / max of two counts, 0 when either is 0, in thousandths
CountRatio(a, b) ==
    IF a = 0 \/ b = 0 THEN 0
    ELSE IF a <= b THEN (a * PartUnits) \div b ELSE (b * PartUnits) \div a

\* C21: for analysed rows with at least one upwind row the score is
\* 0.5 * tack_balance + 0.3 * normalized_angular_spread
\* + 0.2 * upwind_downwind_balance, the spread part being
\* 1 - min(stddev / 30, 1) of the upwind angles, and it lies in [0, 1].
C21_ScoreFormula ==
    (Scored /\ Len(UpwindRows) >= 1) =>
        /\ wind_score =
              5 * CountRatio(Len(SelectSeq(UpwindRows, IsPort)),
                             Len(SelectSeq(UpwindRows, IsStarboard)))
              + 3 * (PartUnits - Min((std_angle(UpwindRows) * PartUnits) \div (30 * SpreadUnits),
                                     PartUnits))
              + 2 * CountRatio(Len(UpwindRows), Len(analyzed_df) - Len(UpwindRows))
        /\ wind_score >= 0
        /\ wind_score <= ScoreUnits

Guided == pc = "guided"

\* the offsets -30, -25, ..., 25, 30
SearchOffsets == {5 * k - 30 : k \in 0..12}

\* the whole number of degrees nearest to x, a half rounded up
RoundHalfUp(x) == (x + Deg \div 2) \div Deg

\* the whole number of degrees nearest to x, a half rounded to the even one
RoundHalfEven(x) ==
    IF x % Deg = Deg \div 2 /\ (x \div Deg) % 2 = 0
    THEN x \div Deg
    ELSE (x + Deg \div 2) \div Deg

\* the score of the segments under a candidate wind of c whole degrees
ScoreUnder(c) == calculate_wind_score(analyze_wind_angles(segments, c * Deg))

\* what the search returns for the candidate set given
GuidedAnswerWithin(candidates) ==
    /\ DOMAIN candidate_scores = candidates
    /\ \A c \in candidates : candidate_scores[c] = ScoreUnder(c)
    /\ \E best \in candidates :
          /\ \A c \in candidates : ScoreUnder(c) <= ScoreUnder(best)
          /\ guided_estimate[2] = ScoreUnder(best)
          /\ IF ScoreUnder(best) > 4000
             THEN /\ guided_estimate[1] # None
                  /\ guided_estimate[1][1] \in candidates
                  /\ ScoreUnder(guided_estimate[1][1]) = ScoreUnder(best)
             ELSE guided_estimate[1] = None

\* C22 as stated: the candidates scored are (round(hint) + k) mod 360 for the
\* offsets k; the answer is a best-scoring candidate of that set when its
\* score exceeds 0.4 and no direction otherwise.
C22_CandidatesAroundRoundedHint ==
    Guided =>
        \/ GuidedAnswerWithin({(RoundHalfEven(user_wind_direction) + k) % 360 :
                                   k \in SearchOffsets})
        \/ GuidedAnswerWithin({(RoundHalfUp(user_wind_direction) + k) % 360 :
                                   k \in SearchOffsets})

\* C22 amended: the candidates scored are round(hint + k) mod 360 for the
\* offsets k, each sum rounded on its own with a half going to the even
\* degree; the answer is a best-scoring candidate of that set when its score
\* exceeds 0.4 and no direction otherwise.
C22_CandidatesRoundedEach ==
    Guided =>
        GuidedAnswerWithin({RoundHalfEven(user_wind_direction + k * Deg) % 360 :
                               k \in SearchOffsets})

\* a hint of 0.5 degrees, the candidate 336 scored, and a direction returned
\* that scores above 0.4 while another candidate scores less
C22_Witness ==
    /\ Guided
    /\ user_wind_direction = Deg \div 2
    /\ 336 \in DOMAIN candidate_scores
    /\ guided_estimate[1] # None
    /\ \E c \in DOMAIN candidate_scores : candidate_scores[c] < guided_estimate[2]

(***************************************************************************)
(* Properties of the filters.                                              *)
(***************************************************************************)
TimeFiltered == pc = "time_filtered"

\* a time is there
Known(t) == Len(t) = 1

\* the frame given has the two time columns
TimeColumns ==
    \A i \in 1..Len(filter_args.segments) :
        {"start_time", "end_time"} \subseteq DOMAIN filter_args.segments[i]

\* row i of the frame given overlaps [time_start, time_end]
Overlaps(i) ==
    /\ \/ filter_args.time_start = None
       \/ ~Known(filter_args.segments[i].end_time)
       \/ filter_args.segments[i].end_time[1] >= filter_args.time_start[1]
    /\ \/ filter_args.time_end = None
       \/ ~Known(filter_args.segments[i].start_time)
       \/ filter_args.segments[i].start_time[1] <= filter_args.time_end[1]

\* the rows of s at the places in K, in their order
RECURSIVE RowsAt(_, _, _)
RowsAt(s, K, i) ==
    IF i > Len(s) THEN <<>>
    ELSE (IF i \in K THEN <<s[i]>> ELSE <<>>) \o RowsAt(s, K, i + 1)

SomeStartAndSomeEnd ==
    /\ \E i \in 1..Len(filter_args.segments) : Known(filter_args.segments[i].start_time)
    /\ \E i \in 1..Len(filter_args.segments) : Known(filter_args.segments[i].end_time)

SpaceFiltered == pc = "space_filtered"

\* the smaller and the larger end of a pair of bounds, the full range when the
\* bounds are absent
LowerEnd(bounds, full) ==
    IF bounds = None THEN 0 - full
    ELSE IF bounds[1] <= bounds[2] THEN bounds[1] ELSE bounds[2]

UpperEnd(bounds, full) ==
    IF bounds = None THEN full
    ELSE IF bounds[1] <= bounds[2] THEN bounds[2] ELSE bounds[1]

\* some track point of row i of the frame given lies within both bounds
TouchesBounds(i) ==
    \E k \in 1..Len(filter_args.track_data) :
        /\ filter_args.segments[i].start_idx <= k - 1
        /\ k - 1 <= filter_args.segments[i].end_idx
        /\ LowerEnd(filter_args.lat_bounds, 90) <= filter_args.track_data[k].latitude
        /\ filter_args.track_data[k].latitude <= UpperEnd(filter_args.lat_bounds, 90)
        /\ LowerEnd(filter_args.lon_bounds, 180) <= filter_args.track_data[k].longitude
        /\ filter_args.track_data[k].longitude <= UpperEnd(filter_args.lon_bounds, 180)

\* C26: the spatial filter returns exactly the rows with at least one track
\* point of index start_idx..end_idx whose latitude and longitude lie within
\* the bounds, the ends of a pair taken in either order and an absent pair
\* meaning the full range; without any bounds it returns every row.
C26_SpatialFilterKeepsTouching ==
    SpaceFiltered =>
        /\ space_filtered = RowsAt(filter_args.segments,
                                   {i \in 1..Len(filter_args.segments) : TouchesBounds(i)}, 1)
              \/ (filter_args.lat_bounds = None /\ filter_args.lon_bounds = None)
        /\ (filter_args.lat_bounds = None /\ filter_args.lon_bounds = None) =>
              space_filtered = filter_args.segments

\* latitude bounds given in swapped order and no longitude bounds: a row with
\* one point inside and one outside is kept, a row outside is dropped, and a
\* row reaching beyond the end of the track is dropped
C26_Witness ==
    /\ SpaceFiltered
    /\ filter_args.lat_bounds = <<1, 0>>
    /\ filter_args.lon_bounds = None
    /\ Len(filter_args.segments) = 3
    /\ filter_args.segments[1].start_idx = 1 /\ filter_args.segments[1].end_idx = 2
    /\ filter_args.segments[2].start_idx = 2
    /\ filter_args.segments[3].start_idx = 3 /\ filter_args.segments[3].end_idx = 5
    /\ space_filtered = <<filter_args.segments[1]>>

ParamsChecked == pc = "params_checked"

TimeRangeWellFormed ==
    (filter_args.time_start # None /\ filter_args.time_end # None)
        => filter_args.time_start[1] <= filter_args.time_end[1]

BoundsWellFormed(bounds, full) ==
    bounds # None =>
        /\ 0 - full <= bounds[1]
        /\ bounds[1] <= bounds[2]
        /\ bounds[2] <= full

\* what the message is about
MessageNames(message) ==
    IF message \in {"time_start must be before time_end"} THEN "time"
    ELSE IF message \in {"Latitude must be between -90 and 90",
                         "lat_min must be less than lat_max"} THEN "latitude"
    ELSE "longitude"

ParametersOutOfRange ==
    \/ ~(0 < angle_tolerance /\ angle_tolerance <= 180 * Deg)
    \/ ~(0 <= min_distance_meters /\ min_distance_meters <= 10000)
    \/ ~(0 <= min_duration_seconds /\ min_duration_seconds <= 3600)

\* find_consistent_angle_stretches has returned to analyze_track_data
DetectorReturned == pc # "track_detect"

\* C23: when angle_tolerance, min_distance_meters or min_duration_seconds is
\* outside its valid range, find_consistent_angle_stretches raises a
\* validation error that reaches its caller before any point metric is
\* computed: it does not return a result
C23_OutOfRangeParametersRaise ==
    ParametersOutOfRange => (~DetectorReturned /\ df_with_metrics = <<>>)

\* analyze_track_data has returned
Analyzed == track_result # None

ConfidenceTiers == {"low", "medium", "high"}

\* C24: when no segment survives detection and filtering, analyze_track_data
\* returns an empty segment collection with refined_wind equal to the initial
\* hypothesis and a wind confidence of low; in every result the confidence
\* is one of low, medium, high
C24_EmptyAnalysisIsLow ==
    Analyzed =>
        /\ track_result[1].wind_confidence \in ConfidenceTiers
        /\ Len(track_result[1].segments) = 0 =>
              /\ track_result[1].refined_wind = track_result[1].initial_wind
              /\ track_result[1].wind_confidence = "low"
====
